---- MODULE Spec2Model ----
(***************************************************************************)
(* Transactional and replication core of the point-of-sale application:    *)
(* the sale transaction processor with FIFO lot consumption                *)
(* (services/inventory.rs), goods receipt (commands.rs), and the outbox /  *)
(* push / pull replication protocol (services/sync.rs).                    *)
(*                                                                         *)
(* Money is counted in units of 0.005 (half a cent), so that the 0.01      *)
(* price tolerance is 2 units and a difference inside the tolerance (1     *)
(* unit) exists.  Arithmetic is exact; quantities stay far below the i32   *)
(* range of the code.                                                      *)
(***************************************************************************)
EXTENDS Integers, Sequences, FiniteSets, TLC

VARIABLES
    items,          \* inventory_items: sku -> [id, name, quantity, price], one row per existing sku
    lots,           \* inventory_lots in creation order: [product_id, quantity, initial_quantity]
    accounts,       \* current_accounts: id -> [account_type, balance]
    transactions,   \* transactions rows in insertion order
    last,           \* the last store operation: its request, its result and the store before it
    outbox,         \* sync_outbox rows in insertion order: [id, transaction_time, synced]
    sync_state,     \* sync_state row 1: [exists, last_push_at, last_pull_at]
    clock,          \* the wall clock chrono::Utc::now() reads
    cycle,          \* per runner of perform_sync: its position, its batch, its responses
    SYNC_RUNNING,   \* static AtomicBool of services/sync.rs
    SYNC_STOP_FLAG, \* static AtomicBool of services/sync.rs
    callers,        \* per thread calling start_background_sync: its position in the call
    workers,        \* the threads start_background_sync spawned, in spawn order
    relay,          \* what other devices of the dealer recorded at the relay: [time]
    pull,           \* a pull of this device against relay: position, cursor sent, answer
    applied,        \* the entries of relay this device has applied
    tx,             \* the storage transaction of a process_sale call in progress
    seen,           \* what a reader on another connection last read
    cache,          \* the AppCache of AppState: its LRU map and its three aggregate slots
    instant,        \* the monotonic clock Instant::now() reads
    stock_cards,    \* stock_cards: id -> barcode, one row per existing card
    received,       \* the outbox entries the relay received, in order
    wanted,         \* the last of start_background_sync and stop_background_sync to return
    recent,         \* the skus set or found in the item cache, the most recently used first
    engine          \* the storage engine: its write lock, its commit counter, the open
                    \* transactions of the connections and the operations committed, in order

storeVars == <<items, lots, accounts, transactions, last>>
syncVars == <<outbox, sync_state, clock, cycle>>
workerVars == <<SYNC_RUNNING, SYNC_STOP_FLAG, callers, workers, wanted>>
relayVars == <<relay, pull, applied>>
isolationVars == <<tx, seen>>
cacheVars == <<cache, instant>>
moreVars == <<cacheVars, stock_cards, received, recent, engine>>
otherVars == <<workerVars, relayVars, isolationVars, moreVars>>
vars == <<items, lots, accounts, transactions, last, outbox, sync_state, clock, cycle,
          SYNC_RUNNING, SYNC_STOP_FLAG, callers, workers, relay, pull, applied, tx, seen,
          cache, instant, stock_cards, received, recent, wanted, engine>>

(***************************************************************************)
(* Bounds of the model                                                     *)
(***************************************************************************)
MaxQty == 2          \* stock quantities and lot sizes the model lets receipts and applies reach
MaxLots == 2         \* rows of inventory_lots
MaxTx == 2           \* rows of transactions
MaxSales == 1        \* rows of transactions written by process_sale
MaxCart == 2         \* lines of one cart
MaxOutbox == 2       \* rows of sync_outbox
MaxClock == 2        \* readings of the wall clock
PushLimit == 1       \* the LIMIT of a push batch (100 in push_to_cloud), scaled to MaxOutbox

(***************************************************************************)
(* Program constants                                                       *)
(***************************************************************************)
PriceTolerance == 2  \* 0.01, in units of 0.005

ServiceSkus == {"IND", "TAHSILAT"}
TransactionTypes == {"SALE", "RETURN", "EXPENSE", "COLLECTION", "PURCHASE"}
PaymentMethods == {"NAKIT", "VERESIYE"}
NoCustomer == "NONE"                 \* customer_id: None
NoNote == "NONE"                     \* note: None
ReceiptNote == "Mal Kabul Fatura"    \* note of the row a goods receipt writes

Skus == {"S1", "S2"}                 \* skus a store row may carry
ProductIds == {"p1", "p2"}           \* ids of stock cards and seeded items
Uuids == {"u1"}                      \* ids Uuid::new_v4() may return
Suppliers == {"supp"}
Customers == {"cust"}

Abs(x) == IF x < 0 THEN 0 - x ELSE x
Min(a, b) == IF a < b THEN a ELSE b
Max(a, b) == IF a < b THEN b ELSE a

\* The store as one value: what a storage transaction works on and commits.
Db == [items |-> items, lots |-> lots, accounts |-> accounts,
       transactions |-> transactions]

(***************************************************************************)
(* Storage transactions                                                    *)
(***************************************************************************)
\* A storage transaction at work: db is its working copy, left the number of
\* write statements that still succeed before the storage engine reports an
\* error (negative: none is reported), failed whether one was reported.
Begin(db, failAt) == [db |-> db, left |-> failAt - 1, failed |-> FALSE]

\* tx.execute(...)?: one write statement; after an error nothing more runs.
Exec(st, newdb) ==
    IF st.failed THEN st
    ELSE IF st.left = 0 THEN [st EXCEPT !.failed = TRUE]
    ELSE [db |-> newdb, left |-> st.left - 1, failed |-> FALSE]

\* A rollback that keeps what the transaction had written.
RollbackPartial(before, working) == working

\* Dropping an uncommitted rusqlite Transaction rolls it back: the store keeps
\* the state it had at conn.transaction().
Rollback(before, working) == before

(***************************************************************************)
(* process_sale_transaction                                                *)
(***************************************************************************)
\* ValidateLine without the price comparison: the submitted price is trusted.
ValidateLineTrusting(db, item) ==
    IF item.cart_quantity <= 0
    THEN [error |-> "InvalidQuantity", final_price |-> 0]
    ELSE IF item.sku \in DOMAIN db.items
         THEN [error |-> "none", final_price |-> item.price]
         ELSE IF item.sku \in ServiceSkus \/ item.price < 0
              THEN [error |-> "none", final_price |-> item.price]
              ELSE [error |-> "LineNotFound", final_price |-> 0]

\* ValidateLine accepting every line whose sku is not in the store.
ValidateLineLenient(db, item) ==
    IF item.cart_quantity <= 0
    THEN [error |-> "InvalidQuantity", final_price |-> 0]
    ELSE IF item.sku \in DOMAIN db.items
         THEN IF Abs(item.price - db.items[item.sku].price) > PriceTolerance
              THEN [error |-> "PriceIntegrityViolation", final_price |-> 0]
              ELSE [error |-> "none", final_price |-> db.items[item.sku].price]
         ELSE [error |-> "none", final_price |-> item.price]

\* ValidateLine charging the submitted price of a line that passes the check.
ValidateLineSubmitted(db, item) ==
    IF item.cart_quantity <= 0
    THEN [error |-> "InvalidQuantity", final_price |-> 0]
    ELSE IF item.sku \in DOMAIN db.items
         THEN IF Abs(item.price - db.items[item.sku].price) > PriceTolerance
              THEN [error |-> "PriceIntegrityViolation", final_price |-> 0]
              ELSE [error |-> "none", final_price |-> item.price]
         ELSE IF item.sku \in ServiceSkus \/ item.price < 0
              THEN [error |-> "none", final_price |-> item.price]
              ELSE [error |-> "LineNotFound", final_price |-> 0]

\* Step 1 for one cart line: quantity check, price integrity, unknown skus.
ValidateLine(db, item) ==
    IF item.cart_quantity <= 0
    THEN [error |-> "InvalidQuantity", final_price |-> 0]
    ELSE IF item.sku \in DOMAIN db.items
         THEN IF Abs(item.price - db.items[item.sku].price) > PriceTolerance
              THEN [error |-> "PriceIntegrityViolation", final_price |-> 0]
              ELSE [error |-> "none", final_price |-> db.items[item.sku].price]
         ELSE IF item.sku \in ServiceSkus \/ item.price < 0
              THEN [error |-> "none", final_price |-> item.price]
              ELSE [error |-> "LineNotFound", final_price |-> 0]

\* ValidateCart stopping after the first line of the cart.
ValidateCartFirstLine(db, cart_items, i, total) ==
    LET v == ValidateLine(db, cart_items[1])
    IN  IF v.error # "none" THEN [error |-> v.error, total |-> 0]
        ELSE [error |-> "none",
              total |-> v.final_price * cart_items[1].cart_quantity]

\* The validation loop: the first failing line ends the call; total accumulates
\* final_price * cart_quantity.
RECURSIVE ValidateCart(_, _, _, _)
ValidateCart(db, cart_items, i, total) ==
    IF i > Len(cart_items) THEN [error |-> "none", total |-> total]
    ELSE LET v == ValidateLine(db, cart_items[i])
         IN  IF v.error # "none" THEN [error |-> v.error, total |-> 0]
             ELSE ValidateCart(db, cart_items, i + 1,
                               total + v.final_price * cart_items[i].cart_quantity)

\* SelectLots with ORDER BY created_at DESC: newest first.
SelectLotsNewestFirst(lotRows, product_id) ==
    LET n == Len(lotRows)
        rows == [j \in 1..n |-> [row |-> n + 1 - j, quantity |-> lotRows[n + 1 - j].quantity]]
    IN  SelectSeq(rows, LAMBDA r : lotRows[r.row].product_id = product_id
                                   /\ r.quantity > 0)

\* SELECT id, quantity FROM inventory_lots WHERE product_id = ?1 AND quantity > 0
\* ORDER BY created_at ASC: the lots as (row, quantity) pairs, oldest first.
SelectLots(lotRows, product_id) ==
    LET rows == [j \in 1..Len(lotRows) |-> [row |-> j, quantity |-> lotRows[j].quantity]]
    IN  SelectSeq(rows, LAMBDA r : lotRows[r.row].product_id = product_id
                                   /\ r.quantity > 0)

\* The FIFO loop over the selected lots.
RECURSIVE ConsumeLots(_, _, _, _)
ConsumeLots(st, selected, k, remaining_qty) ==
    IF k > Len(selected) \/ remaining_qty <= 0 \/ st.failed THEN st
    ELSE LET lot_qty == selected[k].quantity
             consume_qty == Min(remaining_qty, lot_qty)
             new_lot_qty == lot_qty - consume_qty
             st2 == Exec(st, [st.db EXCEPT !.lots[selected[k].row].quantity = new_lot_qty])
         IN  ConsumeLots(st2, selected, k + 1, remaining_qty - consume_qty)

\* Step 3 for one cart line with RETURN handled as every other type: the
\* quantity is subtracted.
UpdateLineSubtracting(st, item, transaction_type) ==
    IF st.failed \/ item.price < 0 THEN st
    ELSE LET found == item.sku \in DOMAIN st.db.items
             current_qty == IF found THEN st.db.items[item.sku].quantity ELSE 0
             new_qty == current_qty - item.cart_quantity
             final_qty == IF new_qty < 0 THEN 0 ELSE new_qty
             st1 == Exec(st, IF found
                             THEN [st.db EXCEPT !.items[item.sku].quantity = final_qty]
                             ELSE st.db)
         IN  IF transaction_type = "SALE" /\ found /\ ~st1.failed
             THEN ConsumeLots(st1, SelectLots(st1.db.lots, st1.db.items[item.sku].id),
                              1, item.cart_quantity)
             ELSE st1

\* Step 3 for one cart line consuming lots whatever the transaction type.
UpdateLineAnyType(st, item, transaction_type) ==
    IF st.failed \/ item.price < 0 THEN st
    ELSE LET found == item.sku \in DOMAIN st.db.items
             current_qty == IF found THEN st.db.items[item.sku].quantity ELSE 0
             new_qty == IF transaction_type = "RETURN"
                        THEN current_qty + item.cart_quantity
                        ELSE current_qty - item.cart_quantity
             final_qty == IF new_qty < 0 THEN 0 ELSE new_qty
             st1 == Exec(st, IF found
                             THEN [st.db EXCEPT !.items[item.sku].quantity = final_qty]
                             ELSE st.db)
         IN  IF found /\ ~st1.failed
             THEN ConsumeLots(st1, SelectLots(st1.db.lots, st1.db.items[item.sku].id),
                              1, item.cart_quantity)
             ELSE st1

\* Step 3 for one cart line: the quantity update and, for SALE, the lots.
UpdateLine(st, item, transaction_type) ==
    IF st.failed \/ item.price < 0 THEN st
    ELSE LET found == item.sku \in DOMAIN st.db.items
             current_qty == IF found THEN st.db.items[item.sku].quantity ELSE 0
             new_qty == IF transaction_type = "RETURN"
                        THEN current_qty + item.cart_quantity
                        ELSE current_qty - item.cart_quantity
             final_qty == IF new_qty < 0 THEN 0 ELSE new_qty
             st1 == Exec(st, IF found
                             THEN [st.db EXCEPT !.items[item.sku].quantity = final_qty]
                             ELSE st.db)
         IN  IF transaction_type = "SALE" /\ found /\ ~st1.failed
             THEN ConsumeLots(st1, SelectLots(st1.db.lots, st1.db.items[item.sku].id),
                              1, item.cart_quantity)
             ELSE st1

RECURSIVE UpdateLines(_, _, _, _)
UpdateLines(st, cart_items, i, transaction_type) ==
    IF i > Len(cart_items) THEN st
    ELSE UpdateLines(UpdateLine(st, cart_items[i], transaction_type),
                     cart_items, i + 1, transaction_type)

\* The balance change taken as the total, whatever the account and the type.
BalanceChangePlain(account_type, transaction_type, total) == total

\* Step 4: the balance change of the counterparty.
BalanceChange(account_type, transaction_type, total) ==
    IF transaction_type = "RETURN" THEN total
    ELSE IF transaction_type = "COLLECTION" THEN 0 - Abs(total)
    ELSE IF account_type = "SUPPLIER" THEN 0 - total ELSE total

UpdateBalance(st, payment_method, transaction_type, customer_id, total) ==
    IF st.failed \/ customer_id = NoCustomer THEN st
    ELSE LET known == customer_id \in DOMAIN st.db.accounts
             account_type == IF known THEN st.db.accounts[customer_id].account_type
                             ELSE "CUSTOMER"
             should_update_balance == transaction_type = "RETURN"
                                      \/ payment_method = "VERESIYE"
                                      \/ transaction_type = "COLLECTION"
             change == BalanceChange(account_type, transaction_type, total)
         IN  IF should_update_balance
             THEN Exec(st, IF known
                           THEN [st.db EXCEPT !.accounts[customer_id].balance = @ + change]
                           ELSE st.db)
             ELSE st

\* Steps 2 to 4 in the storage transaction begun on store db: the insert of the
\* transactions row, the stock and lot updates, the balance update.
SaleWrites(db, cart_items, payment_method, transaction_type, note, customer_id, total, failAt) ==
    LET row == [items |-> cart_items, total |-> total,
                payment_method |-> payment_method,
                transaction_type |-> transaction_type, note |-> note,
                customer_id |-> customer_id]
        st1 == Exec(Begin(db, failAt),
                    [db EXCEPT !.transactions = Append(@, row)])
        st2 == UpdateLines(st1, cart_items, 1, transaction_type)
    IN  UpdateBalance(st2, payment_method, transaction_type, customer_id, total)

\* The whole call on store db: its result, its total and the store it leaves.
ProcessSaleTransaction(db, cart_items, payment_method, transaction_type, note, customer_id, failAt) ==
    LET v == ValidateCart(db, cart_items, 1, 0)
    IN  IF v.error # "none"
        THEN [result |-> v.error, total |-> 0, writes |-> 0, db |-> Rollback(db, db)]
        ELSE LET total == IF transaction_type = "RETURN" THEN 0 - v.total ELSE v.total
                 st3 == SaleWrites(db, cart_items, payment_method, transaction_type,
                                   note, customer_id, total, failAt)
                 st4 == Exec(st3, st3.db)      \* tx.commit()?
             IN  IF st4.failed
                 THEN [result |-> "StorageError", total |-> 0, writes |-> failAt - 1,
                       db |-> Rollback(db, st4.db)]
                 ELSE [result |-> "ok", total |-> total, writes |-> 0, db |-> st4.db]

(***************************************************************************)
(* process_goods_receipt                                                   *)
(***************************************************************************)
\* stock_cards: card id -> barcode (the cards are not changed by this core).
StockCards == [p \in ProductIds |-> IF p = "p1" THEN "S1" ELSE "S2"]
CardName == "card"                   \* stock_cards.name

\* A statement the storage engine rejects (CHECK or FOREIGN KEY): the ? returns.
Reject(st) == [st EXCEPT !.failed = TRUE]

\* A schema without the CHECKs of inventory_items.
CheckNothing(row) == TRUE

\* CHECK (quantity >= 0) and CHECK (price >= 0) of inventory_items.
CheckItem(row) == row.quantity >= 0 /\ row.price >= 0

\* UPDATE inventory_items SET quantity = quantity + ?1 ... for the rows in skus,
\* under the CHECKs of the table.
AddQuantity(st, skus, quantity) ==
    IF \E s \in skus : ~CheckItem([st.db.items[s] EXCEPT !.quantity = @ + quantity])
    THEN Reject(st)
    ELSE Exec(st, [st.db EXCEPT !.items =
                      [s \in DOMAIN @ |-> IF s \in skus
                                          THEN [@[s] EXCEPT !.quantity = @ + quantity]
                                          ELSE @[s]]])

\* INSERT INTO inventory_items from the stock card, under the CHECKs of the table.
InsertFromCard(st, item) ==
    IF st.failed THEN st
    ELSE IF ~CheckItem([quantity |-> item.quantity, price |-> item.sell_price])
    THEN Reject(st)
    ELSE Exec(st, [st.db EXCEPT !.items =
                      [s \in DOMAIN @ \cup {StockCards[item.product_id]} |->
                          IF s = StockCards[item.product_id]
                          THEN [id |-> item.product_id, name |-> CardName,
                                quantity |-> item.quantity, price |-> item.sell_price]
                          ELSE @[s]]])

\* INSERT INTO inventory_lots with quantity = initial_quantity = item.quantity,
\* under the foreign keys of the table (the command turns them on).
InsertLot(st, item, supplier_id) ==
    IF st.failed THEN st
    ELSE IF (\A s \in DOMAIN st.db.items : st.db.items[s].id # item.product_id)
            \/ (supplier_id # NoCustomer /\ supplier_id \notin DOMAIN st.db.accounts)
    THEN Reject(st)
    ELSE Exec(st, [st.db EXCEPT !.lots =
                      Append(@, [product_id |-> item.product_id,
                                 quantity |-> item.quantity,
                                 initial_quantity |-> item.quantity])])

\* Step 2 and 3 of the command for one receipt item.
ReceiveItem(st, item, supplier_id) ==
    IF st.failed THEN st
    ELSE LET has_card == item.product_id \in DOMAIN StockCards
             by_id == {s \in DOMAIN st.db.items : st.db.items[s].id = item.product_id}
             by_sku == IF has_card /\ StockCards[item.product_id] \in DOMAIN st.db.items
                       THEN {StockCards[item.product_id]} ELSE {}
             st1 == AddQuantity(st, by_id, item.quantity)
             st2 == IF by_id = {} /\ has_card /\ ~st1.failed
                    THEN AddQuantity(st1, by_sku, item.quantity) ELSE st1
             updated == IF by_id # {} THEN by_id ELSE by_sku
             st3 == IF updated = {} /\ has_card THEN InsertFromCard(st2, item) ELSE st2
         IN  InsertLot(st3, item, supplier_id)

RECURSIVE ReceiveItems(_, _, _, _)
ReceiveItems(st, receipt_items, i, supplier_id) ==
    IF i > Len(receipt_items) THEN st
    ELSE ReceiveItems(ReceiveItem(st, receipt_items[i], supplier_id),
                      receipt_items, i + 1, supplier_id)

\* Step 5: the PURCHASE row and, for VADELI, the supplier's balance.
ReceiptStatement(st, receipt_items, total_amount, payment_method, supplier_id) ==
    IF st.failed \/ supplier_id = NoCustomer THEN st
    ELSE LET row == [items |-> receipt_items, total |-> total_amount,
                     payment_method |-> payment_method,
                     transaction_type |-> "PURCHASE", note |-> ReceiptNote,
                     customer_id |-> supplier_id]
             st1 == Exec(st, [st.db EXCEPT !.transactions = Append(@, row)])
         IN  IF payment_method = "VADELI" /\ supplier_id \in DOMAIN st1.db.accounts
             THEN Exec(st1, [st1.db EXCEPT
                                !.accounts[supplier_id].balance = @ + total_amount])
             ELSE st1

ProcessGoodsReceipt(db, receipt_items, total_amount, payment_method, supplier_id) ==
    LET st1 == ReceiveItems(Begin(db, 0), receipt_items, 1, supplier_id)
        st2 == ReceiptStatement(st1, receipt_items, total_amount, payment_method,
                                supplier_id)
        st3 == Exec(st2, st2.db)      \* tx.commit()
    IN  IF st3.failed THEN [result |-> "StorageError", db |-> Rollback(db, st3.db)]
        ELSE [result |-> "ok", db |-> st3.db]

(***************************************************************************)
(* apply_remote_transaction                                                *)
(***************************************************************************)
ActionTypes == {"SALE", "STOCK_IN", "STOCK_OUT", "PRICE_CHANGE", "ITEM_CREATE",
                "ITEM_UPDATE", "ITEM_DELETE"}
NoSku == "NONE"                      \* item_sku: None
NoValue == -99                       \* new_value: None
NoName == "NONE"                     \* item_name: None

UsedIds(db) == {db.items[s].id : s \in DOMAIN db.items}
               \cup {db.lots[j].product_id : j \in 1..Len(db.lots)}

\* Uuid::new_v4(): an id no row carries.
FreshId(db) == CHOOSE u \in Uuids : u \notin UsedIds(db)

\* DELETE FROM inventory_items WHERE sku = ?1; the lots of the item go with it
\* (ON DELETE CASCADE) when the connection enforces foreign keys.
DeleteItem(db, sku, foreign_keys) ==
    IF sku \notin DOMAIN db.items THEN db
    ELSE [db EXCEPT
            !.items = [s \in DOMAIN @ \ {sku} |-> @[s]],
            !.lots = IF foreign_keys
                     THEN SelectSeq(@, LAMBDA l : l.product_id # db.items[sku].id)
                     ELSE @]

\* ITEM_CREATE as INSERT OR REPLACE: an existing row of the sku is replaced.
CreateOrReplaceItem(db, txn) ==
    LET price == IF txn.new_value = NoValue THEN 0 ELSE txn.new_value
    IN  IF ~CheckItem([quantity |-> txn.quantity_change, price |-> price])
        THEN db
        ELSE [db EXCEPT !.items =
                [s \in DOMAIN @ \cup {txn.item_sku} |->
                    IF s = txn.item_sku
                    THEN [id |-> IF s \in DOMAIN db.items THEN db.items[s].id
                                 ELSE FreshId(db),
                          name |-> txn.item_name,
                          quantity |-> txn.quantity_change,
                          price |-> price]
                    ELSE @[s]]]

\* ITEM_CREATE with a sku and a name: INSERT OR IGNORE INTO inventory_items under
\* a fresh id, with quantity_change as quantity and new_value (or 0) as price;
\* the row is skipped on a UNIQUE (sku) or CHECK conflict.
CreateItem(db, txn) ==
    LET price == IF txn.new_value = NoValue THEN 0 ELSE txn.new_value
    IN  IF txn.item_sku \in DOMAIN db.items
           \/ ~CheckItem([quantity |-> txn.quantity_change, price |-> price])
        THEN db
        ELSE [db EXCEPT !.items =
                [s \in DOMAIN @ \cup {txn.item_sku} |->
                    IF s = txn.item_sku
                    THEN [id |-> FreshId(db),
                          name |-> txn.item_name,
                          quantity |-> txn.quantity_change,
                          price |-> price]
                    ELSE @[s]]]

\* A remote entry applied without MAX(0, ...) and without the CHECKs of the
\* table: the change is added to the quantity whatever the type.
ApplyRemoteUnclamped(db, txn, foreign_keys) ==
    [result |-> "ok",
     db |-> IF txn.item_sku \in DOMAIN db.items
               /\ txn.action_type \in {"SALE", "STOCK_OUT", "STOCK_IN"}
            THEN [db EXCEPT !.items[txn.item_sku].quantity = @ + txn.quantity_change]
            ELSE db]

\* One remote entry applied in autocommit statements: the result and the store.
ApplyRemoteTransaction(db, txn, foreign_keys) ==
    LET sku == txn.item_sku
        found == sku \in DOMAIN db.items
        ok(d) == [result |-> "ok", db |-> d]
        err == [result |-> "StorageError", db |-> db]
    IN  IF sku = NoSku THEN ok(db)
        ELSE IF txn.action_type \in {"SALE", "STOCK_OUT"}
        THEN ok(IF found
                THEN [db EXCEPT !.items[sku].quantity = Max(0, @ + txn.quantity_change)]
                ELSE db)
        ELSE IF txn.action_type = "STOCK_IN"
        THEN IF found /\ ~CheckItem([db.items[sku] EXCEPT
                                        !.quantity = @ + txn.quantity_change])
             THEN err
             ELSE ok(IF found
                     THEN [db EXCEPT !.items[sku].quantity = @ + txn.quantity_change]
                     ELSE db)
        ELSE IF txn.action_type = "PRICE_CHANGE"
        THEN IF txn.new_value = NoValue THEN ok(db)
             ELSE IF found /\ ~CheckItem([db.items[sku] EXCEPT !.price = txn.new_value])
             THEN err
             ELSE ok(IF found THEN [db EXCEPT !.items[sku].price = txn.new_value]
                     ELSE db)
        ELSE IF txn.action_type = "ITEM_CREATE"
        THEN ok(IF txn.item_name = NoName THEN db ELSE CreateItem(db, txn))
        ELSE IF txn.action_type = "ITEM_UPDATE"
        THEN ok(IF txn.item_name # NoName /\ found
                THEN [db EXCEPT !.items[sku].name = txn.item_name]
                ELSE db)
        ELSE IF txn.action_type = "ITEM_DELETE"
        THEN ok(DeleteItem(db, sku, foreign_keys))
        ELSE ok(db)

(***************************************************************************)
(* The store: initial state and inputs                                     *)
(***************************************************************************)
MaxFailAt == 3       \* write statements of a sale before which a storage error is injected

EmptyDb == [items |-> <<>>, lots |-> <<>>,
            accounts |-> [a \in Customers \cup Suppliers |->
                            [account_type |-> IF a \in Suppliers THEN "SUPPLIER"
                                              ELSE "CUSTOMER",
                             balance |-> 0]],
            transactions |-> <<>>]

NoOp == [op |-> "none", request |-> <<>>, cart_items |-> <<>>, transaction_type |-> "", result |-> "",
         total |-> 0, writes |-> 0, pre |-> EmptyDb]

\* Cart lines a client may submit: quantities around the <= 0 check, prices equal
\* to a stored price (0, 10), inside the tolerance (-1) and outside it (13).
CartLines ==
    [sku : {"S1"}, cart_quantity : {0, 1, 2}, price : {10, 13}]
    \cup [sku : {"S2"}, cart_quantity : {1}, price : {-1, 0}]
    \cup [sku : {"X"}, cart_quantity : {1}, price : {-1, 10}]
    \cup [sku : {"IND"}, cart_quantity : {1}, price : {10}]

Carts == UNION {[1..n -> CartLines] : n \in 1..MaxCart}

Counterparties == {NoCustomer} \cup Suppliers
SalePayments == {"VERESIYE"}

ReceiptItems == [product_id : {"p1"}, quantity : {-1, 2}, sell_price : {10}]
ReceiptPayments == {"VADELI"}
ReceiptTotal == 7                    \* total_amount of a receipt, as the client states it

RemoteTransactions ==
    [action_type : ActionTypes, item_sku : Skus, item_name : {CardName},
     quantity_change : {-1, 1}, new_value : {-1, 0}]

\* Where a storage error may be injected: before any of the first MaxFailAt
\* write statements of a call that reaches its writes (0: nowhere).
FailPoints(db, cart_items) ==
    IF ValidateCart(db, cart_items, 1, 0).error = "none" THEN 0..MaxFailAt ELSE {0}

\* Rows of transactions that process_sale wrote.
SaleRows(db) ==
    Cardinality({i \in 1..Len(db.transactions) : db.transactions[i].note # ReceiptNote})

WithinBounds(db) ==
    /\ \A s \in DOMAIN db.items : db.items[s].quantity <= MaxQty
    /\ Len(db.lots) <= MaxLots
    /\ Len(db.transactions) <= MaxTx

\* The model follows the store up to its MaxSales-th committed sale.
Open == last.op = "none" /\ SaleRows(Db) < MaxSales

Commit(db) ==
    /\ items' = db.items
    /\ lots' = db.lots
    /\ accounts' = db.accounts
    /\ transactions' = db.transactions

\* process_sale: one call of the command, in its storage transaction, with the
\* payment method and the counterparty drawn from the sets given.
ProcessSaleWith(payments, counterparties) ==
    /\ Open
    /\ \E cart_items \in Carts, payment_method \in payments,
          transaction_type \in TransactionTypes, customer_id \in counterparties :
         \E failAt \in FailPoints(Db, cart_items) :
           LET out == ProcessSaleTransaction(Db, cart_items, payment_method,
                                             transaction_type, NoNote, customer_id,
                                             failAt)
           IN  /\ WithinBounds(out.db)
               /\ Commit(out.db)
               /\ last' = [op |-> "process_sale", request |-> <<>>,
                           cart_items |-> cart_items,
                           transaction_type |-> transaction_type,
                           result |-> out.result, total |-> out.total,
                           writes |-> out.writes, pre |-> Db]
    /\ UNCHANGED <<syncVars, otherVars>>

ProcessSale == ProcessSaleWith(SalePayments, Counterparties)

\* process_goods_receipt: one call of the command, in its storage transaction.
GoodsReceipt ==
    /\ Open
    /\ \E item \in ReceiptItems, payment_method \in ReceiptPayments,
          supplier_id \in Counterparties :
         LET out == ProcessGoodsReceipt(Db, <<item>>, ReceiptTotal, payment_method,
                                        supplier_id)
         IN  /\ WithinBounds(out.db)
             /\ Commit(out.db)
             /\ last' = [NoOp EXCEPT !.op = "goods_receipt", !.request = item,
                                     !.result = out.result, !.pre = Db]
    /\ UNCHANGED <<syncVars, otherVars>>

\* One remote entry applied by a pull.
ApplyRemote ==
    /\ Open
    /\ \E txn \in RemoteTransactions, foreign_keys \in BOOLEAN :
         /\ txn.action_type = "ITEM_CREATE" => Uuids \ UsedIds(Db) # {}
         /\ LET out == ApplyRemoteTransaction(Db, txn, foreign_keys)
            IN  /\ WithinBounds(out.db)
                /\ Commit(out.db)
                /\ last' = [NoOp EXCEPT !.op = "apply_remote", !.request = txn,
                                        !.result = out.result, !.pre = Db]
    /\ UNCHANGED <<syncVars, otherVars>>

(***************************************************************************)
(* The outbox and the sync cycle: operators                                *)
(***************************************************************************)
NoTime == 0                          \* last_push_at, last_pull_at: NULL

\* perform_sync runs in the background worker and in the perform_device_sync command.
Runners == {"worker", "command"}

\* queue_transaction with synced = 1 in its INSERT.
EnqueueSynced(rows, now) ==
    Append(rows, [id |-> Len(rows) + 1, transaction_time |-> now, synced |-> 1])

\* queue_transaction: INSERT INTO sync_outbox (..., transaction_time, synced, ...)
\* VALUES (..., now, 0, ...) under a fresh id.
Enqueue(rows, now) ==
    Append(rows, [id |-> Len(rows) + 1, transaction_time |-> now, synced |-> 0])

\* The ids WHERE synced = 0.
Pending(rows) == {i \in 1..Len(rows) : rows[i].synced = 0}

\* get_pending_count: SELECT COUNT(*) FROM sync_outbox WHERE synced = 0.
get_pending_count(rows) == Cardinality(Pending(rows))

\* get_pending_transactions without ORDER BY: any rows WHERE synced = 0, in any
\* order.
get_pending_unordered(rows, limit) ==
    LET n == Min(limit, Cardinality({i \in 1..Len(rows) : rows[i].synced = 0}))
    IN  {b \in [1..n -> {i \in 1..Len(rows) : rows[i].synced = 0}] :
            \A i, j \in 1..n : i < j => b[i] # b[j]}

\* get_pending_transactions without WHERE synced = 0: the oldest rows, pending
\* or not.
get_oldest_transactions(rows, limit) ==
    LET n == Min(limit, Len(rows))
    IN  {b \in [1..n -> 1..Len(rows)] :
            /\ \A i, j \in 1..n : i < j =>
                    /\ b[i] # b[j]
                    /\ rows[b[i]].transaction_time <= rows[b[j]].transaction_time
            /\ \A i \in 1..n : \A k \in 1..Len(rows) :
                    (\A j \in 1..n : b[j] # k) =>
                        rows[b[i]].transaction_time <= rows[k].transaction_time}

\* get_pending_transactions: the results SELECT ... WHERE synced = 0 ORDER BY
\* transaction_time ASC LIMIT limit may return, as sequences of ids; rows of equal
\* transaction_time come in either order.
get_pending_transactions(rows, limit) ==
    LET n == Min(limit, get_pending_count(rows))
    IN  {b \in [1..n -> Pending(rows)] :
            /\ \A i, j \in 1..n : i < j =>
                    /\ b[i] # b[j]
                    /\ rows[b[i]].transaction_time <= rows[b[j]].transaction_time
            /\ \A i \in 1..n : \A k \in Pending(rows) :
                    (\A j \in 1..n : b[j] # k) =>
                        rows[b[i]].transaction_time <= rows[k].transaction_time}

\* A mark_as_synced whose UPDATE has no WHERE clause.
MarkEvery(rows, id) == [i \in 1..Len(rows) |-> [rows[i] EXCEPT !.synced = 1]]

\* A mark_as_synced that flags whatever is pending when it runs.
MarkPending(rows, id) ==
    [i \in 1..Len(rows) |-> IF rows[i].synced = 0 THEN [rows[i] EXCEPT !.synced = 1]
                            ELSE rows[i]]

\* A mark_as_synced that leaves the row alone.
MarkNothing(rows, id) == rows

\* mark_as_synced, one id: UPDATE sync_outbox SET synced = 1 WHERE id = ?1.
MarkSynced(rows, id) ==
    [i \in 1..Len(rows) |-> IF rows[i].id = id THEN [rows[i] EXCEPT !.synced = 1]
                            ELSE rows[i]]

\* What the relay's answer to a POST can be: no answer, a non-success status, a
\* body that does not parse, success = false, success = true.
ResponseKinds == {"TransportError", "HttpError", "ParseError", "Refused", "Success"}
FailureKinds == ResponseKinds \ {"Success"}

\* A push that takes every answer with a success status as an acknowledgement.
AcknowledgedByStatus(kind) == kind \in {"ParseError", "Refused", "Success"}

\* The path of push_to_cloud and pull_from_cloud to their writes: send() returned,
\* status().is_success(), json() parsed and result.success.
Acknowledged(kind) == kind = "Success"

\* PushResponse.inserted: None or a number the relay reports.
InsertedReports == {<<>>, <<0>>}

\* result.inserted.unwrap_or(transactions.len() as i32)
PushedCount(inserted, batch) == IF inserted = <<>> THEN Len(batch) ELSE inserted[1]

\* INSERT OR REPLACE INTO sync_state ... last_push_at = now, last_pull_at kept.
StampPush(row, now) ==
    [exists |-> TRUE, last_push_at |-> now, last_pull_at |-> row.last_pull_at]

\* INSERT OR REPLACE INTO sync_state ... last_pull_at = now, last_push_at kept.
StampPull(row, now) ==
    [exists |-> TRUE, last_push_at |-> row.last_push_at, last_pull_at |-> now]

\* A cursor read from the wrong column of the row.
LastReceivedPushColumn(row) == IF row.exists THEN row.last_push_at ELSE NoTime

\* SELECT last_pull_at FROM sync_state WHERE id = 1, read as a String, .ok():
\* None when there is no row, None when the column is NULL (the read fails),
\* the stored value otherwise.
LastReceived(row) ==
    IF ~row.exists THEN NoTime
    ELSE IF row.last_pull_at = NoTime THEN NoTime
    ELSE row.last_pull_at

\* A pull that writes last_pull_at whatever became of the returned transactions.
AdvanceCursorAlways(row, result, now) == StampPull(row, now)

\* The cursor after the loop of pull_from_cloud: a ? that returned (no
\* acknowledgement, or an apply that failed) leaves the row alone, otherwise
\* last_pull_at is written.
AdvanceCursor(row, result, now) ==
    IF result = "ok" THEN StampPull(row, now) ELSE row

\* A pull that queues an outbox entry when it has applied something.
OutboxAfterPullQueued(rows, txns, now) ==
    IF txns = <<>> THEN rows ELSE Enqueue(rows, now)

\* sync_outbox after pull_from_cloud: neither it nor apply_remote_transaction
\* executes a statement on the table.
OutboxAfterPull(rows, txns, now) == rows

\* perform_sync keeping the count of a side that returned an error.
UnwrapOrCount(result, count) == count

\* push_to_cloud(...).unwrap_or(0), pull_from_cloud(...).unwrap_or(0): the count
\* of a side that returned Ok, 0 for a side that returned an error.
UnwrapOrZero(result, count) == IF result = "ok" THEN count ELSE 0

\* The loop of pull_from_cloud over the returned transactions: each is applied in
\* its own statement, the first error ends the loop.
RECURSIVE ApplyAll(_, _, _, _)
ApplyAll(db, txns, i, foreign_keys) ==
    IF i > Len(txns) THEN [result |-> "ok", db |-> db]
    ELSE LET out == ApplyRemoteTransaction(db, txns[i], foreign_keys)
         IN  IF out.result # "ok" THEN out
             ELSE ApplyAll(out.db, txns, i + 1, foreign_keys)

\* The loop of pull_from_cloud with a storage error injected before the
\* failAt-th apply (0: nowhere): the result, the store, and how many entries
\* were applied.
RECURSIVE ApplyLoop(_, _, _, _, _)
ApplyLoop(db, txns, i, foreign_keys, failAt) ==
    IF i > Len(txns) THEN [result |-> "ok", db |-> db, done |-> Len(txns)]
    ELSE IF i = failAt THEN [result |-> "StorageError", db |-> db, done |-> i - 1]
    ELSE LET out == ApplyRemoteTransaction(db, txns[i], foreign_keys)
         IN  IF out.result # "ok" THEN [result |-> out.result, db |-> db, done |-> i - 1]
             ELSE ApplyLoop(out.db, txns, i + 1, foreign_keys, failAt)

\* The loop inside one storage transaction, rolled back when an apply fails.
ApplyBatchAtomic(db, txns, i, foreign_keys, failAt) ==
    LET out == ApplyLoop(db, txns, i, foreign_keys, failAt)
    IN  IF out.result = "ok" THEN out ELSE [out EXCEPT !.db = db]

\* for txn in &transactions { apply_remote_transaction(conn, txn)?; } on the
\* connection itself: every apply is its own autocommit statement.
ApplyBatch(db, txns, i, foreign_keys, failAt) ==
    ApplyLoop(db, txns, i, foreign_keys, failAt)

(***************************************************************************)
(* cache/mod.rs: AppCache.  Time is counted in minutes.                    *)
(***************************************************************************)
ItemTtl == 5         \* Duration::from_secs(300)
AggregateTtl == 1    \* Duration::from_secs(60)
LruCapacity == 1     \* capacity of items_by_sku (500 in AppCache::new), scaled to Skus
MaxInstant == 7      \* readings of the monotonic clock

\* Option::None of an entry.
None == [some |-> FALSE, value |-> 0, expires_at |-> 0]

\* CacheEntry::new
CacheEntry(value, ttl, now) == [some |-> TRUE, value |-> value, expires_at |-> now + ttl]

\* An entry that never expires.
is_expired_never(entry, now) == FALSE

\* CacheEntry::is_expired
is_expired(entry, now) == now > entry.expires_at

\* AppCache::new; items_by_sku lists its entries from most to least recently used.
NewCacheOf(capacity) ==
    [items_by_sku |-> <<>>, capacity |-> capacity, all_items |-> None,
     dashboard_stats |-> None, category_stats |-> None]

\* AppCache::new
NewCache == NewCacheOf(LruCapacity)

\* LruCache::peek, pop, get (which promotes the entry) and put (which evicts the
\* least recently used entry of a full map).
LruPeek(lru, k) ==
    IF \E i \in 1..Len(lru) : lru[i].key = k
    THEN lru[CHOOSE i \in 1..Len(lru) : lru[i].key = k].entry
    ELSE None

LruPop(lru, k) == SelectSeq(lru, LAMBDA e : e.key # k)

\* LruCache::get leaving the order of the entries as it is.
LruGetUnpromoted(lru, k) == lru

LruGet(lru, k) ==
    IF LruPeek(lru, k).some THEN <<[key |-> k, entry |-> LruPeek(lru, k)]>> \o LruPop(lru, k)
    ELSE lru

LruPut(lru, k, entry, capacity) ==
    LET rest == LruPop(lru, k)
        kept == IF Len(rest) >= capacity THEN SubSeq(rest, 1, capacity - 1) ELSE rest
    IN  <<[key |-> k, entry |-> entry]>> \o kept

\* AppCache::get_item: the value returned and the cache it leaves.
get_item(c, sku, now) ==
    LET entry == LruPeek(c.items_by_sku, sku)
    IN  IF entry.some /\ ~is_expired(entry, now)
        THEN [value |-> entry, cache |-> [c EXCEPT !.items_by_sku = LruGet(@, sku)]]
        ELSE [value |-> None, cache |-> [c EXCEPT !.items_by_sku = LruPop(@, sku)]]

\* AppCache::set_item
set_item(c, sku, item, now) ==
    [c EXCEPT !.items_by_sku = LruPut(@, sku, CacheEntry(item, ItemTtl, now), c.capacity)]

\* invalidate_item clearing the aggregate slots only.
invalidate_item_aggregates(c, sku) ==
    [c EXCEPT !.all_items = None, !.dashboard_stats = None, !.category_stats = None]

\* AppCache::invalidate_item
invalidate_item(c, sku) ==
    [c EXCEPT !.items_by_sku = LruPop(@, sku), !.all_items = None,
              !.dashboard_stats = None, !.category_stats = None]

\* The three aggregate slots; get_all_items, get_dashboard_stats and
\* get_category_stats are the same code on their slot, and so are the setters.
Slots == {"all_items", "dashboard_stats", "category_stats"}

get_aggregate(c, slot, now) ==
    IF c[slot].some /\ ~is_expired(c[slot], now) THEN c[slot] ELSE None

set_aggregate(c, slot, value, now) ==
    [c EXCEPT ![slot] = CacheEntry(value, AggregateTtl, now)]

\* AppCache::invalidate_all
invalidate_all(c) ==
    [c EXCEPT !.items_by_sku = <<>>, !.all_items = None, !.dashboard_stats = None,
              !.category_stats = None]

\* AppCache::invalidate_aggregates
invalidate_aggregates(c) ==
    [c EXCEPT !.all_items = None, !.dashboard_stats = None, !.category_stats = None]

\* Threads that call start_background_sync and stop_background_sync: the main
\* thread (the setup hook and the commands) and any other thread of the process.
Callers == {"main", "other"}

\* No pull in flight against the relay.
NoPull == [pc |-> "idle", since |-> NoTime, returned |-> {}]

\* No process_sale call in progress; no read made.
NoTx == [pc |-> "none", k |-> 0, cart_items |-> <<>>, payment_method |-> "", transaction_type |-> "",
         customer_id |-> NoCustomer, total |-> 0, pre |-> EmptyDb]
NoRead == [op |-> "none", db |-> EmptyDb, tx |-> NoTx]

\* The connections process_sale calls may run on, and one with no transaction open.
SaleConns == {"A", "B"}
NoSession == [pc |-> "none", cart_items |-> <<>>, transaction_type |-> "", snapshot |-> EmptyDb,
              version |-> 0]

\* The storage engine with no write lock held and nothing committed yet.
Unlocked == [lock |-> "none", version |-> 0, conn |-> [c \in SaleConns |-> NoSession],
             start |-> EmptyDb, log |-> <<>>, busy |-> FALSE]

Idle == [pc |-> "idle", batch |-> <<>>, marked |-> 0, pending |-> 0, quiet |-> TRUE,
         response |-> "none", result |-> "none", pushed |-> 0, pulled |-> 0,
         since |-> NoTime, delivered |-> FALSE, now |-> NoTime]

\* The store after init_schema, with one customer and one supplier account, and
\* no sync cycle running.
Init ==
    /\ items = EmptyDb.items
    /\ lots = EmptyDb.lots
    /\ accounts = EmptyDb.accounts
    /\ transactions = EmptyDb.transactions
    /\ last = NoOp
    /\ outbox = <<>>
    /\ sync_state = [exists |-> FALSE, last_push_at |-> NoTime, last_pull_at |-> NoTime]
    /\ clock = 1
    /\ cycle = [p \in Runners |-> Idle]
    /\ SYNC_RUNNING = FALSE
    /\ SYNC_STOP_FLAG = FALSE
    /\ callers = [t \in Callers |-> "idle"]
    /\ workers = <<>>
    /\ relay = <<>>
    /\ pull = NoPull
    /\ applied = {}
    /\ tx = NoTx
    /\ seen = NoRead
    /\ cache = NewCache
    /\ instant = 0
    /\ stock_cards = StockCards
    /\ received = <<>>
    /\ recent = <<>>
    /\ wanted = "none"
    /\ engine = Unlocked

\* The command returns: its response is handed to the command layer.
Return ==
    /\ last.op # "none"
    /\ last' = NoOp
    /\ UNCHANGED <<items, lots, accounts, transactions>>
    /\ UNCHANGED <<syncVars, otherVars>>

StoreNext == ProcessSale \/ GoodsReceipt \/ ApplyRemote \/ Return

SpecStore == Init /\ [][StoreNext]_vars

(***************************************************************************)
(* apply_remote_transaction as a function of the inventory and the entry   *)
(***************************************************************************)
\* Inventories a device may hold when an entry arrives: every sku absent or
\* present under its card's id, with a name, a quantity and a price.
ApplyInventories ==
    LET Rows(s) == [id : {IF s = "S1" THEN "p1" ELSE "p2"}, name : {CardName, "old"},
                    quantity : {0, 1}, price : {0, 10}]
    IN  UNION {{f \in [present -> UNION {Rows(s) : s \in present}] :
                    \A s \in present : f[s] \in Rows(s)} : present \in SUBSET Skus}

\* Entries the relay may return: every action type, with and without a name and
\* a new value, with quantities and prices the store accepts and refuses.
ApplyTransactions ==
    [action_type : ActionTypes, item_sku : Skus, item_name : {NoName, CardName, "new"},
     quantity_change : {-1, 1}, new_value : {NoValue, -1, 0, 10}]

ApplyInit ==
    /\ items \in ApplyInventories
    /\ lots = <<>>
    /\ accounts = EmptyDb.accounts
    /\ transactions = <<>>
    /\ last = NoOp
    /\ outbox = <<>>
    /\ sync_state = [exists |-> FALSE, last_push_at |-> NoTime, last_pull_at |-> NoTime]
    /\ clock = 1
    /\ cycle = [p \in Runners |-> Idle]
    /\ SYNC_RUNNING = FALSE
    /\ SYNC_STOP_FLAG = FALSE
    /\ callers = [t \in Callers |-> "idle"]
    /\ workers = <<>>
    /\ relay = <<>>
    /\ pull = NoPull
    /\ applied = {}
    /\ tx = NoTx
    /\ seen = NoRead
    /\ cache = NewCache
    /\ instant = 0
    /\ stock_cards = StockCards
    /\ received = <<>>
    /\ recent = <<>>
    /\ wanted = "none"
    /\ engine = Unlocked

\* apply_remote_transaction on an entry.
ApplyFirst ==
    /\ last.op = "none"
    /\ \E txn \in ApplyTransactions, foreign_keys \in BOOLEAN :
         /\ txn.action_type = "ITEM_CREATE" => Uuids \ UsedIds(Db) # {}
         /\ LET out == ApplyRemoteTransaction(Db, txn, foreign_keys)
            IN  /\ WithinBounds(out.db)
                /\ Commit(out.db)
                /\ last' = [NoOp EXCEPT !.op = "apply_first", !.request = txn,
                                        !.result = out.result, !.pre = Db]
    /\ UNCHANGED <<syncVars, otherVars>>

\* apply_remote_transaction on the same entry again (the relay returned it twice,
\* or a pull that failed later in its batch was repeated).
ApplyAgain ==
    /\ last.op = "apply_first"
    /\ \E foreign_keys \in BOOLEAN :
         /\ last.request.action_type = "ITEM_CREATE" => Uuids \ UsedIds(Db) # {}
         /\ LET out == ApplyRemoteTransaction(Db, last.request, foreign_keys)
            IN  /\ WithinBounds(out.db)
                /\ Commit(out.db)
                /\ last' = [NoOp EXCEPT !.op = "apply_again", !.request = last.request,
                                        !.result = out.result, !.pre = Db]
    /\ UNCHANGED <<syncVars, otherVars>>

ApplyNext == ApplyFirst \/ ApplyAgain \/ Return

SpecApply == ApplyInit /\ [][ApplyNext]_vars

(***************************************************************************)
(* Properties of process_sale, stated on the response of the last call     *)
(* (last) and the committed store (Db).                                    *)
(***************************************************************************)
ValidationErrors == {"InvalidQuantity", "PriceIntegrityViolation", "LineNotFound"}

LastSale == last.op = "process_sale"
LastCart == last.cart_items
Unchanged == Db = last.pre

\* The line's sku exists in the store and the submitted price is off by more than 0.01.
Mismatch(db, item) ==
    /\ item.sku \in DOMAIN db.items
    /\ Abs(item.price - db.items[item.sku].price) > PriceTolerance

\* The line passes every check of step 1.
Passes(db, item) ==
    /\ item.cart_quantity > 0
    /\ ~Mismatch(db, item)
    /\ item.sku \in DOMAIN db.items \/ item.sku \in ServiceSkus \/ item.price < 0

HasMismatch == \E i \in 1..Len(LastCart) : Mismatch(last.pre, LastCart[i])

\* A mismatching line is the first line of the cart to fail a check.
MismatchFirst ==
    \E i \in 1..Len(LastCart) :
        /\ Mismatch(last.pre, LastCart[i])
        /\ LastCart[i].cart_quantity > 0
        /\ \A j \in 1..(i - 1) : Passes(last.pre, LastCart[j])

\* C1, as stated: every process_sale call with a line whose sku exists and whose
\* price is off by more than 0.01 fails with the price-integrity error and leaves
\* quantities, lots, balances and transactions as they were.
C1_AlwaysPriceIntegrity ==
    (LastSale /\ HasMismatch) =>
        (last.result = "PriceIntegrityViolation" /\ Unchanged)

\* C1, amended: such a call fails with a validation error and leaves quantities,
\* lots, balances and transactions as they were; the error is the price-integrity
\* error when the mismatching line is the first line of the cart to fail a check
\* (an earlier line, or the line's own cart_quantity <= 0, is reported instead).
C1_PriceIntegrity ==
    (LastSale /\ HasMismatch) =>
        /\ last.result \in ValidationErrors
        /\ Unchanged
        /\ MismatchFirst => last.result = "PriceIntegrityViolation"

\* A sale whose second line mismatches after a valid line of a stocked item, on a
\* store that holds lots and a transaction row, was rejected for price integrity.
C1_Witness ==
    /\ LastSale /\ Len(LastCart) = 2
    /\ Passes(last.pre, LastCart[1]) /\ LastCart[1].sku \in DOMAIN last.pre.items
    /\ last.pre.items[LastCart[1].sku].quantity > 0
    /\ Mismatch(last.pre, LastCart[2]) /\ LastCart[2].cart_quantity > 0
    /\ last.pre.lots # <<>> /\ last.pre.transactions # <<>>
    /\ last.result = "PriceIntegrityViolation"

HasNonPositive == \E i \in 1..Len(LastCart) : LastCart[i].cart_quantity <= 0

\* C2: every process_sale call whose cart has a line with cart_quantity <= 0, at
\* any position, fails with a validation error and writes nothing: no transaction
\* row is added and no quantity, lot or balance changes.
C2_InvalidQuantity ==
    (LastSale /\ HasNonPositive) =>
        (last.result \in ValidationErrors /\ Unchanged)

\* A sale whose second line has cart_quantity 0, after a valid line of a stocked
\* item with lots, was rejected for its quantity.
C2_Witness ==
    /\ LastSale /\ Len(LastCart) = 2
    /\ Passes(last.pre, LastCart[1]) /\ LastCart[1].sku \in DOMAIN last.pre.items
    /\ last.pre.items[LastCart[1].sku].quantity > 0
    /\ last.pre.lots # <<>>
    /\ LastCart[2].cart_quantity <= 0
    /\ last.result = "InvalidQuantity"

IsOk == LastSale /\ last.result = "ok"

\* The quantity of sku that step 3 leaves, from quantity Q, line by line.
RECURSIVE QtyAfter(_, _, _, _, _)
QtyAfter(Q, cart, i, sku, type) ==
    IF i > Len(cart) THEN Q
    ELSE LET l == cart[i]
             Q2 == IF l.sku # sku \/ l.price < 0 THEN Q
                   ELSE IF type = "RETURN" THEN Q + l.cart_quantity
                   ELSE Max(0, Q - l.cart_quantity)
         IN  QtyAfter(Q2, cart, i + 1, sku, type)

\* C3: process_sale is all-or-nothing. A call that fails at any step, also by a
\* storage error after the transaction row or some quantities were written,
\* leaves the committed store as it was before the call; a call that succeeds
\* commits its transaction row and the quantities of all its lines together.
C3_AllOrNothing ==
    LastSale =>
        /\ last.result # "ok" => Unchanged
        /\ last.result = "ok" =>
             /\ Len(transactions) = Len(last.pre.transactions) + 1
             /\ SubSeq(transactions, 1, Len(last.pre.transactions)) = last.pre.transactions
             /\ transactions[Len(transactions)].items = LastCart
             /\ transactions[Len(transactions)].total = last.total
             /\ \A s \in DOMAIN last.pre.items :
                  /\ s \in DOMAIN items
                  /\ items[s].quantity = QtyAfter(last.pre.items[s].quantity, LastCart, 1,
                                                  s, last.transaction_type)

\* A SALE failed by a storage error after its transaction row and a quantity
\* were written, on a store with lots.
C3_Witness ==
    /\ LastSale /\ last.result = "StorageError" /\ last.writes = 2
    /\ last.transaction_type = "SALE"
    /\ last.pre.lots # <<>>
    /\ Unchanged

\* The line at i is the only line of the cart for its sku, and the sku exists.
SingleLine(i) ==
    /\ LastCart[i].sku \in DOMAIN last.pre.items
    /\ \A j \in 1..Len(LastCart) : LastCart[j].sku = LastCart[i].sku => j = i

\* The sum of the quantities of the lots of product_id.
RECURSIVE LotTotal(_, _, _)
LotTotal(lotRows, product_id, j) ==
    IF j > Len(lotRows) THEN 0
    ELSE LotTotal(lotRows, product_id, j + 1)
         + (IF lotRows[j].product_id = product_id THEN lotRows[j].quantity ELSE 0)

\* C4: after a successful SALE of quantity q of an existing sku with quantity Q
\* (single line for the sku, non-negative price) the quantity is max(0, Q - q) and
\* the lots of the product were decremented by min(q, sum of their quantities
\* before the sale) in total.
C4_SaleConsumes ==
    (IsOk /\ last.transaction_type = "SALE") =>
        \A i \in 1..Len(LastCart) :
            (SingleLine(i) /\ LastCart[i].price >= 0) =>
                LET sku == LastCart[i].sku
                    q == LastCart[i].cart_quantity
                    product_id == last.pre.items[sku].id
                    before == LotTotal(last.pre.lots, product_id, 1)
                IN  /\ items[sku].quantity = Max(0, last.pre.items[sku].quantity - q)
                    /\ before - LotTotal(lots, product_id, 1) = Min(q, before)

\* C5, as stated: after a successful RETURN of quantity q of an existing sku with
\* quantity Q the quantity is Q + q, and the total, returned and persisted, is the
\* negation of the total of the same cart as a SALE.
C5_ReturnAlwaysRestocks ==
    (IsOk /\ last.transaction_type = "RETURN") =>
        /\ last.total = 0 - ValidateCart(last.pre, LastCart, 1, 0).total
        /\ transactions[Len(transactions)].total = last.total
        /\ \A i \in 1..Len(LastCart) :
             SingleLine(i) =>
                items[LastCart[i].sku].quantity
                    = last.pre.items[LastCart[i].sku].quantity + LastCart[i].cart_quantity

\* C5, amended: after a successful RETURN of quantity q of an existing sku with
\* quantity Q, submitted at a non-negative price, the quantity is Q + q (a line
\* with a negative price leaves the quantity alone); the total, returned and
\* persisted, is the negation of the total of the same cart as a SALE.
C5_ReturnRestocks ==
    (IsOk /\ last.transaction_type = "RETURN") =>
        /\ last.total = 0 - ValidateCart(last.pre, LastCart, 1, 0).total
        /\ transactions[Len(transactions)].total = last.total
        /\ \A i \in 1..Len(LastCart) :
             (SingleLine(i) /\ LastCart[i].price >= 0) =>
                items[LastCart[i].sku].quantity
                    = last.pre.items[LastCart[i].sku].quantity + LastCart[i].cart_quantity

\* A RETURN of one unit of a stocked item at its stored price succeeded with a
\* negative total.
C5_Witness ==
    /\ IsOk /\ last.transaction_type = "RETURN"
    /\ \E i \in 1..Len(LastCart) :
         /\ SingleLine(i) /\ LastCart[i].price > 0
         /\ last.pre.items[LastCart[i].sku].quantity > 0
    /\ last.total < 0

\* C6: in every reachable committed state, after any interleaving of process_sale
\* calls of every type, goods receipts and remote applies of every action type
\* (also STOCK_IN or ITEM_CREATE with a negative quantity_change), the quantity of
\* every inventory item is >= 0.
C6_QuantityNonNegative ==
    \A s \in DOMAIN items : items[s].quantity >= 0

\* A remote STOCK_IN with a negative quantity_change on an item of quantity 0
\* was refused by the store.
C6_Witness ==
    /\ last.op = "apply_remote" /\ last.request.action_type = "STOCK_IN"
    /\ last.request.quantity_change < 0
    /\ last.request.item_sku \in DOMAIN last.pre.items
    /\ last.pre.items[last.request.item_sku].quantity = 0
    /\ last.result = "StorageError"
    /\ Unchanged

\* C7: in every reachable state every lot has 0 <= quantity <= initial_quantity.
C7_LotBounds ==
    \A j \in 1..Len(lots) :
        0 <= lots[j].quantity /\ lots[j].quantity <= lots[j].initial_quantity

\* The line's sku is not in the store and the line is neither a service code nor
\* negatively priced.
Unlisted(db, item) ==
    /\ item.sku \notin DOMAIN db.items
    /\ item.sku \notin ServiceSkus
    /\ item.price >= 0

\* The line's sku is not in the store and the line is a service code or
\* negatively priced.
Special(db, item) ==
    /\ item.sku \notin DOMAIN db.items
    /\ item.sku \in ServiceSkus \/ item.price < 0

\* An unlisted line is the first line of the cart to fail a check.
UnlistedFirst ==
    \E i \in 1..Len(LastCart) :
        /\ Unlisted(last.pre, LastCart[i])
        /\ LastCart[i].cart_quantity > 0
        /\ \A j \in 1..(i - 1) : Passes(last.pre, LastCart[j])

\* C20, as stated: a line whose sku is not in the store is accepted if and only
\* if its price is negative or its sku is IND or TAHSILAT; every process_sale call
\* with any other unknown-sku line fails with the not-found error and leaves the
\* store as it was.
C20_AlwaysNotFound ==
    LastSale =>
        /\ (\E i \in 1..Len(LastCart) : Unlisted(last.pre, LastCart[i])) =>
               (last.result = "LineNotFound" /\ Unchanged)
        /\ (\A i \in 1..Len(LastCart) :
               Special(last.pre, LastCart[i]) /\ LastCart[i].cart_quantity > 0) =>
               last.result \notin ValidationErrors

\* C20, amended: a line whose sku is not in the store passes validation if and
\* only if its cart_quantity is positive and its price is negative or its sku
\* is IND or TAHSILAT; a call with any other unknown-sku line fails with a
\* validation error and leaves the store as it was, and the error is the
\* not-found error exactly when such a line, with a positive cart_quantity, is
\* the first line of the cart to fail a check.
C20_UnknownSku ==
    LastSale =>
        /\ (\E i \in 1..Len(LastCart) : Unlisted(last.pre, LastCart[i])) =>
               (last.result \in ValidationErrors /\ Unchanged)
        /\ UnlistedFirst <=> last.result = "LineNotFound"
        /\ (\A i \in 1..Len(LastCart) :
               Special(last.pre, LastCart[i]) /\ LastCart[i].cart_quantity > 0) =>
               last.result \notin ValidationErrors

\* A sale whose first line is a negatively priced line of an unknown sku, which
\* passed, and whose second line is the same unknown sku at a positive price was
\* rejected as not found, on a store that holds items, lots and a transaction row.
C20_Witness ==
    /\ LastSale /\ Len(LastCart) = 2
    /\ Special(last.pre, LastCart[1]) /\ LastCart[1].price < 0
    /\ Unlisted(last.pre, LastCart[2])
    /\ last.pre.lots # <<>> /\ last.pre.transactions # <<>>
    /\ last.result = "LineNotFound"
    /\ Unchanged

\* What C14 compares: the sku set and, per sku, name, price and quantity.
Inventory(db) ==
    [s \in DOMAIN db.items |->
        [name |-> db.items[s].name, price |-> db.items[s].price,
         quantity |-> db.items[s].quantity]]

\* C14: for every inventory and every remote ITEM_CREATE, PRICE_CHANGE or
\* ITEM_UPDATE, applying the entry a second time leaves the inventory (sku set,
\* names, prices, quantities) as the first apply left it, with the same result;
\* ITEM_CREATE for a sku that exists leaves the item's row untouched.
C14_ApplyIdempotent ==
    /\ (/\ last.op = "apply_again"
        /\ last.request.action_type \in {"ITEM_CREATE", "PRICE_CHANGE", "ITEM_UPDATE"}) =>
            Inventory(Db) = Inventory(last.pre)
    /\ (/\ last.op \in {"apply_first", "apply_again"}
        /\ last.request.action_type = "ITEM_CREATE"
        /\ last.request.item_sku \in DOMAIN last.pre.items) =>
            (Db = last.pre /\ last.result = "ok")

\* An ITEM_CREATE for a sku the store holds, with another name, quantity and
\* price than the stored ones, was applied twice.
C14_Witness ==
    /\ last.op = "apply_again" /\ last.request.action_type = "ITEM_CREATE"
    /\ last.request.item_sku \in DOMAIN last.pre.items
    /\ last.request.item_name # NoName
    /\ last.request.item_name # items[last.request.item_sku].name
    /\ last.request.quantity_change # items[last.request.item_sku].quantity
    /\ last.request.quantity_change > 0
    /\ last.request.new_value = 10
    /\ items[last.request.item_sku].price = 0

(***************************************************************************)
(* The outbox and the sync cycle: actions                                  *)
(***************************************************************************)
\* Positions of a runner between reading its batch and the return of the push.
InPush == {"sent", "marking", "stamping"}

\* What a pull may return: no transaction or one.
PullTransactions ==
    [action_type : {"ITEM_CREATE", "STOCK_IN"}, item_sku : {"S2"},
     item_name : {CardName}, quantity_change : {-1, 1}, new_value : {0}]
PullBatches == {<<>>} \cup {<<txn>> : txn \in PullTransactions}
PullForeignKeys == TRUE              \* no pulled transaction deletes an item here

\* queue_sync_transaction. Commands run one at a time, so none runs while the
\* perform_device_sync command is in its cycle; the worker may be anywhere.
QueueTransaction ==
    /\ cycle["command"].pc = "idle"
    /\ Len(outbox) < MaxOutbox
    /\ outbox' = Enqueue(outbox, clock)
    /\ cycle' = [p \in Runners |->
                    IF cycle[p].pc \in InPush THEN [cycle[p] EXCEPT !.quiet = FALSE]
                    ELSE cycle[p]]
    /\ UNCHANGED <<sync_state, clock>>
    /\ UNCHANGED <<storeVars, otherVars>>

\* Time passes.
Tick ==
    /\ clock < MaxClock
    /\ clock' = clock + 1
    /\ UNCHANGED <<outbox, sync_state, cycle>>
    /\ UNCHANGED <<storeVars, otherVars>>

\* push_to_cloud up to its POST: the batch is read; an empty batch returns Ok(0).
PushReadWith(p, limit) ==
    /\ cycle[p].pc = "idle"
    /\ \E batch \in get_pending_transactions(outbox, limit) :
         cycle' = [cycle EXCEPT ![p] =
                     IF batch = <<>>
                     THEN [Idle EXCEPT !.pc = "pushed", !.result = "ok"]
                     ELSE [Idle EXCEPT !.pc = "sent", !.batch = batch,
                                       !.pending = get_pending_count(outbox)]]
    /\ UNCHANGED <<outbox, sync_state, clock>>
    /\ UNCHANGED <<storeVars, otherVars>>

PushRead(p) == PushReadWith(p, PushLimit)

\* The answer to the POST arrives: an acknowledged batch goes on to be marked,
\* every other answer makes push_to_cloud return its error.
PushRespond(p) ==
    /\ cycle[p].pc = "sent"
    /\ \E kind \in ResponseKinds, inserted \in InsertedReports :
         cycle' = [cycle EXCEPT ![p] =
                     IF Acknowledged(kind)
                     THEN [@ EXCEPT !.pc = "marking", !.response = kind,
                                    !.pushed = PushedCount(inserted, cycle[p].batch)]
                     ELSE [@ EXCEPT !.pc = "pushed", !.response = kind,
                                    !.result = kind]]
    /\ UNCHANGED <<outbox, sync_state, clock>>
    /\ UNCHANGED <<storeVars, otherVars>>

\* mark_as_synced, one turn of its loop: one autocommit UPDATE.
MarkAsSynced(p) ==
    /\ cycle[p].pc = "marking"
    /\ LET id == cycle[p].batch[cycle[p].marked + 1]
           done == cycle[p].marked + 1 = Len(cycle[p].batch)
       IN  /\ outbox' = MarkSynced(outbox, id)
           /\ cycle' = [q \in Runners |->
                          IF q = p
                          THEN [cycle[p] EXCEPT !.marked = @ + 1,
                                  !.pc = IF done THEN "stamping" ELSE "marking"]
                          ELSE IF /\ cycle[q].pc \in InPush
                                  /\ outbox[id].synced = 0
                                  /\ \A k \in 1..Len(cycle[q].batch) : cycle[q].batch[k] # id
                               THEN [cycle[q] EXCEPT !.quiet = FALSE]
                               ELSE cycle[q]]
    /\ UNCHANGED <<sync_state, clock>>
    /\ UNCHANGED <<storeVars, otherVars>>

\* mark_as_synced fails on an UPDATE: push_to_cloud returns the storage error.
MarkFails(p) ==
    /\ cycle[p].pc = "marking"
    /\ cycle' = [cycle EXCEPT ![p].pc = "pushed", ![p].result = "StorageError"]
    /\ UNCHANGED <<outbox, sync_state, clock>>
    /\ UNCHANGED <<storeVars, otherVars>>

\* The end of a successful push: last_push_at is written and the count returned.
PushStamp(p) ==
    /\ cycle[p].pc = "stamping"
    /\ sync_state' = StampPush(sync_state, clock)
    /\ cycle' = [cycle EXCEPT ![p].pc = "pushed", ![p].result = "ok"]
    /\ UNCHANGED <<outbox, clock>>
    /\ UNCHANGED <<storeVars, otherVars>>

\* pull_from_cloud up to its POST: the cursor is read. perform_sync calls it
\* whatever the push returned.
PullSend(p) ==
    /\ cycle[p].pc = "pushed"
    /\ cycle' = [cycle EXCEPT ![p] =
                    [Idle EXCEPT !.pc = "pulling",
                                 !.pushed = UnwrapOrZero(cycle[p].result, cycle[p].pushed),
                                 !.since = LastReceived(sync_state)]]
    /\ UNCHANGED <<outbox, sync_state, clock>>
    /\ UNCHANGED <<storeVars, otherVars>>

\* The answer to the pull arrives: the returned transactions are applied one by
\* one and, if all applied, last_pull_at is written.
PullRespond(p) ==
    /\ cycle[p].pc = "pulling"
    /\ \E kind \in ResponseKinds :
         \E txns \in IF Acknowledged(kind) THEN PullBatches ELSE {<<>>} :
           LET out == IF Acknowledged(kind) THEN ApplyAll(Db, txns, 1, PullForeignKeys)
                      ELSE [result |-> kind, db |-> Db]
           IN  /\ WithinBounds(out.db)
               /\ Commit(out.db)
               /\ sync_state' = AdvanceCursor(sync_state, out.result, clock)
               /\ outbox' = OutboxAfterPull(outbox, txns, clock)
               /\ cycle' = [cycle EXCEPT ![p].pc = "pulled", ![p].result = out.result,
                                          ![p].pulled = Len(txns)]
    /\ UNCHANGED <<clock, last, otherVars>>

\* send_heartbeat reads the pending count and posts it, whatever the pull
\* returned; perform_sync then has its Ok((pushed, pulled)).
Heartbeat(p) ==
    /\ cycle[p].pc = "pulled"
    /\ cycle' = [cycle EXCEPT ![p] =
                    [Idle EXCEPT !.pc = "returned", !.result = "ok",
                                 !.pushed = cycle[p].pushed,
                                 !.pulled = UnwrapOrZero(cycle[p].result, cycle[p].pulled)]]
    /\ UNCHANGED <<outbox, sync_state, clock>>
    /\ UNCHANGED <<storeVars, otherVars>>

\* perform_sync returns to its caller: the worker drops the result, the
\* perform_device_sync command hands it to the client.
PerformSyncReturns(p) ==
    /\ cycle[p].pc = "returned"
    /\ cycle' = [cycle EXCEPT ![p] = Idle]
    /\ UNCHANGED <<outbox, sync_state, clock>>
    /\ UNCHANGED <<storeVars, otherVars>>

SyncNext ==
    \/ QueueTransaction
    \/ Tick
    \/ \E p \in Runners : PushRead(p)
    \/ \E p \in Runners : PushRespond(p)
    \/ \E p \in Runners : MarkAsSynced(p)
    \/ \E p \in Runners : MarkFails(p)
    \/ \E p \in Runners : PushStamp(p)
    \/ \E p \in Runners : PullSend(p)
    \/ \E p \in Runners : PullRespond(p)
    \/ \E p \in Runners : Heartbeat(p)
    \/ \E p \in Runners : PerformSyncReturns(p)

SpecSync == Init /\ [][SyncNext]_vars

\* The POST of runner p's push is answered with success.
PushAcknowledged(p) == PushRespond(p) /\ Acknowledged(cycle'[p].response)

\* The background worker keeps running its cycles (the loop of
\* start_background_sync), every step of a cycle ends (the POSTs have timeouts),
\* the relay answers a push with success again and again, and the store accepts
\* the UPDATE of mark_as_synced again and again.
SyncFairness ==
    /\ WF_vars(PushRead("worker"))
    /\ SF_vars(PushAcknowledged("worker"))
    /\ SF_vars(MarkAsSynced("worker"))
    /\ WF_vars(PushStamp("worker"))
    /\ WF_vars(PullSend("worker"))
    /\ WF_vars(PullRespond("worker"))
    /\ WF_vars(Heartbeat("worker"))
    /\ WF_vars(PerformSyncReturns("worker"))

SpecSyncLive == SpecSync /\ SyncFairness

(***************************************************************************)
(* Properties of the outbox and of push_to_cloud                           *)
(***************************************************************************)
\* C8: every outbox entry is created pending and its only transition is pending
\* to synced: no step of queue_transaction, push, pull, heartbeat, perform_sync
\* or the worker sets a synced entry back to pending or deletes an entry.
C8_PendingToSynced ==
    [][/\ Len(outbox') >= Len(outbox)
       /\ \A i \in 1..Len(outbox) :
            /\ outbox'[i].id = outbox[i].id
            /\ outbox[i].synced = 1 => outbox'[i].synced = 1
       /\ \A i \in (Len(outbox) + 1)..Len(outbox') : outbox'[i].synced = 0]_vars

\* An entry was flagged synced, a later entry is pending, and a cycle has gone
\* through its pull to its heartbeat since.
C8_Witness ==
    /\ Len(outbox) = 2
    /\ outbox[1].synced = 1 /\ outbox[2].synced = 0
    /\ sync_state.last_pull_at # NoTime
    /\ \E p \in Runners : cycle[p].pc = "pulled"

\* The steps runner p takes in a push whose POST was answered with a failure.
FailedPushStep(p) ==
    /\ cycle'[p] # cycle[p]
    /\ cycle[p].pc \in InPush
    /\ cycle'[p].response \in FailureKinds

\* C9: a push that fails (transport error, non-success status, unparsable body,
\* success = false) leaves every pending entry pending and last_push_at as it
\* was, so the same entries are read again by the next push.
C9_FailedPushKeepsPending ==
    [][\A p \in Runners :
          FailedPushStep(p) =>
              /\ outbox' = outbox
              /\ sync_state'.last_push_at = sync_state.last_push_at
              /\ cycle'[p].pc = "pushed" /\ cycle'[p].result \in FailureKinds
              /\ \A k \in 1..Len(cycle[p].batch) :
                    outbox[cycle[p].batch[k]].synced = 0 =>
                        \E b \in get_pending_transactions(outbox', MaxOutbox) :
                            \E j \in 1..Len(b) : b[j] = cycle[p].batch[k]]_vars

\* A push was refused with success = false after an earlier push had succeeded:
\* its batch is still pending and last_push_at is the earlier stamp.
C9_Witness ==
    \E p \in Runners :
        /\ cycle[p].pc = "pushed" /\ cycle[p].result = "Refused"
        /\ cycle[p].batch # <<>>
        /\ \A k \in 1..Len(cycle[p].batch) : outbox[cycle[p].batch[k]].synced = 0
        /\ sync_state.last_push_at # NoTime
        /\ sync_state.last_push_at < clock

\* The step in which runner p's push_to_cloud returns success for a batch.
PushSucceeds(p) ==
    /\ cycle[p].pc = "stamping"
    /\ cycle'[p].pc = "pushed" /\ cycle'[p].result = "ok"

\* C10, as stated: when push_to_cloud returns success for a batch of n entries,
\* get_pending_count is exactly n below its value when the batch was read, n being
\* min(limit, pending), whatever inserted number the relay reports.
C10_CountDropsByBatch ==
    [][\A p \in Runners :
          PushSucceeds(p) =>
              /\ Len(cycle[p].batch) = Min(PushLimit, cycle[p].pending)
              /\ get_pending_count(outbox')
                    = cycle[p].pending - Len(cycle[p].batch)]_vars

\* C10, amended: when push_to_cloud returns success for a batch of n entries, all
\* n entries of the batch are flagged synced and n is min(limit, pending when the
\* batch was read), whatever inserted number the relay reports; get_pending_count
\* is exactly n below its value when the batch was read if, since then, no entry
\* was queued and no other push flagged an entry outside the batch.
C10_BatchSynced ==
    [][\A p \in Runners :
          PushSucceeds(p) =>
              /\ Len(cycle[p].batch) = Min(PushLimit, cycle[p].pending)
              /\ \A k \in 1..Len(cycle[p].batch) :
                    outbox'[cycle[p].batch[k]].synced = 1
              /\ cycle[p].quiet =>
                    get_pending_count(outbox')
                        = cycle[p].pending - Len(cycle[p].batch)]_vars

\* A push of a full batch returned success while more entries than the limit were
\* pending, the relay reporting 0 inserted; the count fell by the batch size.
C10_Witness ==
    \E p \in Runners :
        /\ cycle[p].pc = "pushed" /\ cycle[p].result = "ok"
        /\ Len(cycle[p].batch) = PushLimit /\ cycle[p].pending > PushLimit
        /\ cycle[p].pushed = 0
        /\ cycle[p].quiet
        /\ get_pending_count(outbox) = cycle[p].pending - Len(cycle[p].batch)

\* C11: at-least-once delivery. An entry is flagged synced only by a runner whose
\* POST of a batch holding the entry was answered with success, and every entry
\* queued is eventually flagged synced, whatever the batch limit and whatever
\* entries are queued after it, provided the worker keeps running cycles and the
\* relay answers pushes with success again and again.
C11_AtLeastOnce ==
    /\ [][\A i \in 1..Len(outbox) :
            (outbox[i].synced = 0 /\ outbox'[i].synced = 1) =>
                \E p \in Runners :
                    /\ cycle[p].pc = "marking" /\ cycle[p].response = "Success"
                    /\ cycle'[p].marked = cycle[p].marked + 1
                    /\ cycle[p].batch[cycle[p].marked + 1] = i]_vars
    /\ \A i \in 1..MaxOutbox :
          (Len(outbox) >= i) ~> (Len(outbox) >= i /\ outbox[i].synced = 1)

\* With more entries queued than one batch takes, every entry is flagged synced,
\* the last one queued at a later time than the first, and a push has been
\* stamped since.
C11_Witness ==
    /\ Len(outbox) = MaxOutbox
    /\ \A i \in 1..Len(outbox) : outbox[i].synced = 1
    /\ outbox[1].transaction_time < outbox[2].transaction_time
    /\ sync_state.last_push_at >= outbox[2].transaction_time
    /\ PushLimit < MaxOutbox

(***************************************************************************)
(* Properties of pull_from_cloud and of perform_sync                       *)
(***************************************************************************)
\* The step in which runner p's pull_from_cloud gets its answer and returns.
PullStep(p) == cycle[p].pc = "pulling" /\ cycle'[p].pc = "pulled"

\* C12: last_pull_at is advanced only by a pull in which the relay answered
\* success and every returned remote transaction was applied without error; a
\* pull that fails on the network, receives success = false or an unusable answer,
\* or fails while applying some entry leaves last_pull_at (and the whole
\* sync_state row) unchanged.
C12_CursorOnlyAfterApply ==
    [][/\ sync_state'.last_pull_at # sync_state.last_pull_at =>
             \E p \in Runners : PullStep(p) /\ cycle'[p].result = "ok"
       /\ \A p \in Runners :
             (PullStep(p) /\ cycle'[p].result # "ok") => sync_state' = sync_state]_vars

\* A pull failed while applying a returned transaction (the store refused it)
\* after an earlier pull had succeeded: last_pull_at is the earlier stamp.
C12_Witness ==
    \E p \in Runners :
        /\ cycle[p].pc = "pulled" /\ cycle[p].result = "StorageError"
        /\ cycle[p].pulled = 1
        /\ sync_state.last_pull_at # NoTime
        /\ sync_state.last_pull_at < clock

\* C13: pulling and applying remote transactions never adds, removes or modifies
\* an entry of this device's outbox, for every action type and every outcome of
\* the pull.
C13_PullKeepsOutbox ==
    [][\A p \in Runners :
          (cycle'[p] # cycle[p] /\ cycle[p].pc \in {"pushed", "pulling"}) =>
              outbox' = outbox]_vars

\* A pull applied a remote ITEM_CREATE to the inventory while the outbox held a
\* synced and a pending entry.
C13_Witness ==
    \E p \in Runners :
        /\ cycle[p].pc = "pulled" /\ cycle[p].result = "ok" /\ cycle[p].pulled = 1
        /\ "S2" \in DOMAIN items
        /\ Len(outbox) = 2
        /\ outbox[1].synced = 1 /\ outbox[2].synced = 0

\* C15: in a cycle of perform_sync push, pull and heartbeat are attempted in that
\* order, each whatever the earlier ones returned, and the cycle returns Ok with
\* 0 as the count of a side that failed.
C15_BestEffortCycle ==
    [][\A p \in Runners :
          cycle'[p] # cycle[p] =>
              /\ cycle[p].pc \in {"idle"} \cup InPush =>
                     cycle'[p].pc \in InPush \cup {"pushed"}
              /\ cycle[p].pc = "pushed" =>
                     /\ cycle'[p].pc = "pulling"
                     /\ cycle'[p].pushed
                            = IF cycle[p].result = "ok" THEN cycle[p].pushed ELSE 0
              /\ cycle[p].pc = "pulling" =>
                     /\ cycle'[p].pc = "pulled"
                     /\ cycle'[p].pushed = cycle[p].pushed
              /\ cycle[p].pc = "pulled" =>
                     /\ cycle'[p].pc = "returned" /\ cycle'[p].result = "ok"
                     /\ cycle'[p].pushed = cycle[p].pushed
                     /\ cycle'[p].pulled
                            = IF cycle[p].result = "ok" THEN cycle[p].pulled ELSE 0
              /\ cycle[p].pc = "returned" => cycle'[p].pc = "idle"]_vars

\* A cycle returned Ok((0, 0)) while both outbox entries are pending and neither
\* a push nor a pull has ever written sync_state: its push and its pull failed,
\* and it went through its pull and its heartbeat all the same.
C15_Witness ==
    \E p \in Runners :
        /\ cycle[p].pc = "returned" /\ cycle[p].result = "ok"
        /\ cycle[p].pushed = 0 /\ cycle[p].pulled = 0
        /\ get_pending_count(outbox) = 2
        /\ outbox[2].transaction_time < clock
        /\ ~sync_state.exists

(***************************************************************************)
(* The background sync worker: start_background_sync, stop_background_sync *)
(***************************************************************************)
MaxWorkers == 3      \* threads the model lets start_background_sync spawn
SleepTicks == 2      \* 100 ms sleeps of one interval (interval_seconds * 10), scaled

\* is_sync_running()
is_sync_running == SYNC_RUNNING

\* The worker threads that have not returned from their closure.
Alive == {w \in 1..Len(workers) : workers[w].pc # "dead"}

\* The last call to return, after start_background_sync returned Ok: a start
\* that follows a stop is a restart.
Started(w) == IF w \in {"stop", "restart"} THEN "restart" ELSE "start"

\* start_background_sync, its first statement: if SYNC_RUNNING.load() { return Ok(()) }.
StartCheck(t) ==
    /\ callers[t] = "idle"
    /\ Len(workers) < MaxWorkers
    /\ callers' = [callers EXCEPT ![t] = IF SYNC_RUNNING THEN "idle" ELSE "store_running"]
    /\ wanted' = IF SYNC_RUNNING THEN Started(wanted) ELSE wanted
    /\ UNCHANGED <<SYNC_RUNNING, SYNC_STOP_FLAG, workers>>
    /\ UNCHANGED <<storeVars, syncVars, relayVars, isolationVars, moreVars>>

\* SYNC_RUNNING.store(true)
StartStoreRunning(t) ==
    /\ callers[t] = "store_running"
    /\ SYNC_RUNNING' = TRUE
    /\ callers' = [callers EXCEPT ![t] = "store_stop"]
    /\ UNCHANGED <<SYNC_STOP_FLAG, workers, wanted>>
    /\ UNCHANGED <<storeVars, syncVars, relayVars, isolationVars, moreVars>>

\* SYNC_STOP_FLAG.store(false)
StartStoreStop(t) ==
    /\ callers[t] = "store_stop"
    /\ SYNC_STOP_FLAG' = FALSE
    /\ callers' = [callers EXCEPT ![t] = "spawn"]
    /\ UNCHANGED <<SYNC_RUNNING, workers, wanted>>
    /\ UNCHANGED <<storeVars, syncVars, relayVars, isolationVars, moreVars>>

\* thread::spawn(...); Ok(())
StartSpawn(t) ==
    /\ callers[t] = "spawn"
    /\ workers' = Append(workers, [pc |-> "check", ticks |-> 0, observed |-> FALSE])
    /\ callers' = [callers EXCEPT ![t] = "idle"]
    /\ wanted' = Started(wanted)
    /\ UNCHANGED <<SYNC_RUNNING, SYNC_STOP_FLAG>>
    /\ UNCHANGED <<storeVars, syncVars, relayVars, isolationVars, moreVars>>

\* stop_background_sync: SYNC_STOP_FLAG.store(true)
StopBackgroundSync(t) ==
    /\ callers[t] = "idle"
    /\ SYNC_STOP_FLAG' = TRUE
    /\ wanted' = "stop"
    /\ UNCHANGED <<SYNC_RUNNING, callers, workers>>
    /\ UNCHANGED <<storeVars, syncVars, relayVars, isolationVars, moreVars>>

\* The top of the worker's loop: the stop flag is checked.
WorkerCheck(w) ==
    /\ w \in 1..Len(workers) /\ workers[w].pc = "check"
    /\ workers' = [workers EXCEPT ![w].pc = IF SYNC_STOP_FLAG THEN "exit" ELSE "sync",
                                  ![w].observed = @ \/ SYNC_STOP_FLAG]
    /\ UNCHANGED <<SYNC_RUNNING, SYNC_STOP_FLAG, callers, wanted>>
    /\ UNCHANGED <<storeVars, syncVars, relayVars, isolationVars, moreVars>>

\* The worker opens its connection and perform_sync runs push_to_cloud to its
\* return.
WorkerSync(w) ==
    /\ w \in 1..Len(workers) /\ workers[w].pc = "sync"
    /\ workers' = [workers EXCEPT ![w].pc = "pull"]
    /\ UNCHANGED <<SYNC_RUNNING, SYNC_STOP_FLAG, callers, wanted>>
    /\ UNCHANGED <<storeVars, syncVars, relayVars, isolationVars, moreVars>>

\* perform_sync runs pull_from_cloud to its return.
WorkerPull(w) ==
    /\ w \in 1..Len(workers) /\ workers[w].pc = "pull"
    /\ workers' = [workers EXCEPT ![w].pc = "heartbeat"]
    /\ UNCHANGED <<SYNC_RUNNING, SYNC_STOP_FLAG, callers, wanted>>
    /\ UNCHANGED <<storeVars, syncVars, relayVars, isolationVars, moreVars>>

\* perform_sync runs send_heartbeat and returns; the worker enters its sleep.
WorkerHeartbeat(w) ==
    /\ w \in 1..Len(workers) /\ workers[w].pc = "heartbeat"
    /\ workers' = [workers EXCEPT ![w].pc = "sleep", ![w].ticks = SleepTicks]
    /\ UNCHANGED <<SYNC_RUNNING, SYNC_STOP_FLAG, callers, wanted>>
    /\ UNCHANGED <<storeVars, syncVars, relayVars, isolationVars, moreVars>>

\* One turn of the sleep loop: break on the stop flag, else sleep 100 ms; after
\* the loop the worker is at the top of its outer loop.
WorkerSleep(w) ==
    /\ w \in 1..Len(workers) /\ workers[w].pc = "sleep"
    /\ workers' = [workers EXCEPT ![w] =
                      IF workers[w].ticks = 0 THEN [@ EXCEPT !.pc = "check"]
                      ELSE IF SYNC_STOP_FLAG
                      THEN [@ EXCEPT !.pc = "check", !.ticks = 0, !.observed = TRUE]
                      ELSE [@ EXCEPT !.ticks = @ - 1]]
    /\ UNCHANGED <<SYNC_RUNNING, SYNC_STOP_FLAG, callers, wanted>>
    /\ UNCHANGED <<storeVars, syncVars, relayVars, isolationVars, moreVars>>

\* After the loop: SYNC_RUNNING.store(false), and the thread ends.
WorkerExit(w) ==
    /\ w \in 1..Len(workers) /\ workers[w].pc = "exit"
    /\ SYNC_RUNNING' = FALSE
    /\ workers' = [workers EXCEPT ![w].pc = "dead"]
    /\ UNCHANGED <<SYNC_STOP_FLAG, callers, wanted>>
    /\ UNCHANGED <<storeVars, syncVars, relayVars, isolationVars, moreVars>>

WorkerNext ==
    \/ \E t \in Callers : StartCheck(t)
    \/ \E t \in Callers : StartStoreRunning(t)
    \/ \E t \in Callers : StartStoreStop(t)
    \/ \E t \in Callers : StartSpawn(t)
    \/ \E t \in Callers : StopBackgroundSync(t)
    \/ \E w \in 1..MaxWorkers : WorkerCheck(w)
    \/ \E w \in 1..MaxWorkers : WorkerSync(w)
    \/ \E w \in 1..MaxWorkers : WorkerPull(w)
    \/ \E w \in 1..MaxWorkers : WorkerHeartbeat(w)
    \/ \E w \in 1..MaxWorkers : WorkerSleep(w)
    \/ \E w \in 1..MaxWorkers : WorkerExit(w)

SpecWorker == Init /\ [][WorkerNext]_vars

\* Every thread keeps running: a call of start_background_sync that has passed
\* its check goes on to its stores and its spawn, and a worker takes its next
\* step (perform_sync returns, its POSTs having timeouts; a sleep ends).
WorkerFairness ==
    /\ \A t \in Callers :
          /\ WF_vars(StartStoreRunning(t))
          /\ WF_vars(StartStoreStop(t))
          /\ WF_vars(StartSpawn(t))
    /\ \A w \in 1..MaxWorkers :
          /\ WF_vars(WorkerCheck(w))
          /\ WF_vars(WorkerSync(w))
          /\ WF_vars(WorkerPull(w))
          /\ WF_vars(WorkerHeartbeat(w))
          /\ WF_vars(WorkerSleep(w))
          /\ WF_vars(WorkerExit(w))

SpecWorkerLive == SpecWorker /\ WorkerFairness

\* C16: at most one background sync worker is alive at any time, for every
\* interleaving of start_background_sync calls, also of two calls on different
\* threads.
C16_SingleWorker == Cardinality(Alive) <= 1

\* C17: after stop_background_sync is called while a worker is running, the
\* worker eventually exits and is_sync_running() eventually returns false.
C17_StopStops ==
    /\ \A w \in 1..MaxWorkers :
          (w \in Alive /\ SYNC_STOP_FLAG) ~> (w \notin Alive)
    /\ (Alive # {} /\ SYNC_STOP_FLAG) ~> ~is_sync_running

\* The stages of a cycle of perform_sync in the worker.
InCycle == {"sync", "pull", "heartbeat"}

\* What follows a stage of the worker's cycle.
AfterStage(pc) == IF pc = "sync" THEN "pull" ELSE IF pc = "pull" THEN "heartbeat" ELSE "sleep"

\* C34: a worker inside a cycle goes on to the next stage of the cycle whatever
\* the stop flag says and leaves its loop only at the check at the top; a worker
\* that has observed the stop flag starts no further cycle.
C34_StopOnlyBetweenCycles ==
    [][\A w \in 1..Len(workers) :
         /\ (workers[w].pc \in InCycle /\ workers'[w] # workers[w])
               => workers'[w].pc = AfterStage(workers[w].pc)
         /\ (workers'[w].pc = "exit" /\ workers[w].pc # "exit")
               => workers[w].pc = "check" /\ SYNC_STOP_FLAG
         /\ (workers[w].observed /\ workers[w].pc # "sync")
               => workers'[w].pc # "sync"]_vars

\* C37: is_sync_running() is true exactly when a worker thread is alive.
C37_RunningIffAlive == is_sync_running <=> Alive # {}

\* C38: when start_background_sync has returned Ok after a stop_background_sync
\* and no stop has been called since, a worker is alive that is not on its way
\* out of its loop.
C38_RestartLeavesWorker ==
    wanted = "restart" => \E w \in Alive : workers[w].pc # "exit"

(***************************************************************************)
(* The pull cursor against the relay.  The relay is not part of the        *)
(* sources; it is taken as the wire contract describes it: a pull returns  *)
(* what other devices of the dealer recorded since the cursor sent.        *)
(***************************************************************************)
MaxRelay == 2        \* entries other devices record at the relay

\* The relay's answer to a pull: every entry when the cursor is omitted, else
\* the entries recorded at the cursor's time or later.
RelaySince(log, since) ==
    {i \in 1..Len(log) : since = NoTime \/ log[i].time >= since}

\* Another device of the dealer pushes an entry, which the relay records.
RelayRecord ==
    /\ Len(relay) < MaxRelay
    /\ relay' = Append(relay, [time |-> clock])
    /\ UNCHANGED <<pull, applied>>
    /\ UNCHANGED <<storeVars, syncVars, workerVars, isolationVars, moreVars>>

\* pull_from_cloud up to its POST: last_pull_at is read and sent as since.
RelayPullSend ==
    /\ pull.pc = "idle"
    /\ pull' = [pc |-> "sent", since |-> sync_state.last_pull_at, returned |-> {}]
    /\ UNCHANGED <<relay, applied>>
    /\ UNCHANGED <<storeVars, syncVars, workerVars, isolationVars, moreVars>>

\* The relay answers the pull with success.
RelayPullAnswer ==
    /\ pull.pc = "sent"
    /\ pull' = [pull EXCEPT !.pc = "answered", !.returned = RelaySince(relay, pull.since)]
    /\ UNCHANGED <<relay, applied>>
    /\ UNCHANGED <<storeVars, syncVars, workerVars, isolationVars, moreVars>>

\* The answer arrives: every returned entry is applied, then last_pull_at is
\* written with chrono::Utc::now().
RelayPullApply ==
    /\ pull.pc = "answered"
    /\ applied' = applied \cup pull.returned
    /\ sync_state' = StampPull(sync_state, clock)
    /\ pull' = NoPull
    /\ UNCHANGED <<relay, outbox, clock, cycle>>
    /\ UNCHANGED <<storeVars, workerVars, isolationVars, moreVars>>

RelayNext == RelayRecord \/ RelayPullSend \/ RelayPullAnswer \/ RelayPullApply \/ Tick

SpecRelay == Init /\ [][RelayNext]_vars

\* Pulls keep running and keep succeeding.
RelayFairness ==
    /\ WF_vars(RelayPullSend)
    /\ WF_vars(RelayPullAnswer)
    /\ WF_vars(RelayPullApply)

SpecRelayLive == SpecRelay /\ RelayFairness

\* C18: every transaction another device of the dealer recorded at the relay is
\* eventually returned by a pull of this device and applied, provided pulls keep
\* succeeding; advancing last_pull_at never makes all later pulls skip an entry
\* that has not been applied.
C18_EveryEntryPulled ==
    \A i \in 1..MaxRelay : (Len(relay) >= i) ~> (i \in applied)

(***************************************************************************)
(* process_sale_transaction statement by statement, with a reader on       *)
(* another connection                                                      *)
(***************************************************************************)
\* What the other connections see after a statement run on the connection itself,
\* outside the transaction: the statement's effect.
AfterWriteAutocommit(committed, written) == written

\* What the other connections see after tx.execute(...) on the open
\* transaction: the store as last committed.
AfterWrite(committed, written) == committed

\* Stores a sale may start on: S1 and S2 in stock, one lot of S1.
IsolationInit ==
    /\ items \in {[s \in Skus |-> [id |-> IF s = "S1" THEN "p1" ELSE "p2", name |-> CardName,
                                   quantity |-> IF s = "S1" THEN q ELSE 1,
                                   price |-> IF s = "S1" THEN 10 ELSE 0]] : q \in 1..MaxQty}
    /\ lots \in {<<[product_id |-> "p1", quantity |-> q, initial_quantity |-> q]>> : q \in 1..MaxQty}
    /\ accounts = EmptyDb.accounts
    /\ transactions = <<>>
    /\ last = NoOp
    /\ outbox = <<>>
    /\ sync_state = [exists |-> FALSE, last_push_at |-> NoTime, last_pull_at |-> NoTime]
    /\ clock = 1
    /\ cycle = [p \in Runners |-> Idle]
    /\ SYNC_RUNNING = FALSE
    /\ SYNC_STOP_FLAG = FALSE
    /\ callers = [t \in Callers |-> "idle"]
    /\ workers = <<>>
    /\ relay = <<>>
    /\ pull = NoPull
    /\ applied = {}
    /\ tx = NoTx
    /\ seen = NoRead
    /\ cache = NewCache
    /\ instant = 0
    /\ stock_cards = StockCards
    /\ received = <<>>
    /\ recent = <<>>
    /\ wanted = "none"
    /\ engine = Unlocked

\* The working copy of the open transaction t after its first k write statements.
SaleWorking(t, k) ==
    SaleWrites(t.pre, t.cart_items, t.payment_method, t.transaction_type, NoNote,
               t.customer_id, t.total, k + 1)

\* conn.transaction() and step 1: the cart is validated and the total computed.
SaleBegin ==
    /\ tx.pc = "none"
    /\ Open
    /\ \E cart_items \in Carts, payment_method \in SalePayments,
          transaction_type \in TransactionTypes, customer_id \in Counterparties :
         LET v == ValidateCart(Db, cart_items, 1, 0)
         IN  /\ v.error = "none"
             /\ tx' = [pc |-> "open", k |-> 0, cart_items |-> cart_items,
                       payment_method |-> payment_method,
                       transaction_type |-> transaction_type,
                       customer_id |-> customer_id,
                       total |-> IF transaction_type = "RETURN" THEN 0 - v.total
                                 ELSE v.total,
                       pre |-> Db]
    /\ UNCHANGED <<storeVars, syncVars, workerVars, relayVars, seen, moreVars>>

\* The next tx.execute(...) of steps 2 to 4 succeeds.
SaleWrite ==
    /\ tx.pc = "open"
    /\ SaleWorking(tx, tx.k).failed
    /\ tx' = [tx EXCEPT !.k = @ + 1]
    /\ Commit(AfterWrite(Db, SaleWorking(tx, tx.k + 1).db))
    /\ UNCHANGED <<last, syncVars, workerVars, relayVars, seen, moreVars>>

\* A statement or the commit fails: `?` returns, tx is dropped and rolls back.
SaleAbort ==
    /\ tx.pc = "open"
    /\ tx' = [tx EXCEPT !.pc = "aborted"]
    /\ Commit(Rollback(tx.pre, Db))
    /\ UNCHANGED <<last, syncVars, workerVars, relayVars, seen, moreVars>>

\* tx.commit() after the last statement.
SaleCommit ==
    /\ tx.pc = "open"
    /\ ~SaleWorking(tx, tx.k).failed
    /\ tx' = [tx EXCEPT !.pc = "committed"]
    /\ Commit(SaleWorking(tx, tx.k).db)
    /\ UNCHANGED <<last, syncVars, workerVars, relayVars, seen, moreVars>>

\* process_sale_transaction returns.
SaleReturn ==
    /\ tx.pc \in {"committed", "aborted"}
    /\ tx' = NoTx
    /\ last' = [NoOp EXCEPT !.op = "process_sale", !.cart_items = tx.cart_items,
                            !.transaction_type = tx.transaction_type,
                            !.result = IF tx.pc = "committed" THEN "ok" ELSE "StorageError",
                            !.pre = tx.pre]
    /\ UNCHANGED <<items, lots, accounts, transactions>>
    /\ UNCHANGED <<syncVars, workerVars, relayVars, seen, moreVars>>

\* Another command on a pooled connection, or the sync worker on its own
\* connection, reads the store.
Read ==
    /\ seen' = [op |-> "read", db |-> Db, tx |-> tx]
    /\ UNCHANGED <<storeVars, syncVars, workerVars, relayVars, tx, moreVars>>

IsolationNext == SaleBegin \/ SaleWrite \/ SaleAbort \/ SaleCommit \/ SaleReturn \/ Read

SpecIsolation == IsolationInit /\ [][IsolationNext]_vars

\* The store a sale leaves when every statement of it and its commit succeed.
SaleDone(t) ==
    ProcessSaleTransaction(t.pre, t.cart_items, t.payment_method, t.transaction_type,
                           NoNote, t.customer_id, 0).db

\* C19: no other reader observes an intermediate state of a sale: while the sale's
\* storage transaction is open the other connections see the store as it was
\* before the sale, whatever the sale has written; after a rollback they still
\* see that store, after the commit they see all of the sale's effects.
C19_SaleIsolated ==
    /\ tx.pc \in {"open", "aborted"} => Db = tx.pre
    /\ tx.pc = "committed" => Db = SaleDone(tx)
    /\ seen.op = "read" /\ seen.tx.pc \in {"open", "aborted"} => seen.db = seen.tx.pre
    /\ seen.op = "read" /\ seen.tx.pc = "committed" => seen.db = SaleDone(seen.tx)

\* C19 witness: a read made while a SALE had inserted its row and decremented the
\* stock of S1 but not yet its lot, the working copy differing from the store
\* the sale began on and from the store it would commit.
C19_Witness ==
    /\ seen.op = "read"
    /\ seen.tx.pc = "open"
    /\ seen.tx.transaction_type = "SALE"
    /\ seen.tx.k = 2
    /\ SaleWorking(seen.tx, 2).db.items # seen.tx.pre.items
    /\ SaleWorking(seen.tx, 2).db.lots = seen.tx.pre.lots
    /\ SaleWorking(seen.tx, 2).db # SaleDone(seen.tx)
    /\ seen.db = seen.tx.pre

(***************************************************************************)
(* AppCache under calls of its methods in any order                        *)
(***************************************************************************)
\* The store the cached values are computed from: S1 and S2 in stock.
CacheInit ==
    /\ items = [s \in Skus |-> [id |-> IF s = "S1" THEN "p1" ELSE "p2", name |-> CardName,
                                 quantity |-> IF s = "S1" THEN 1 ELSE 2,
                                 price |-> IF s = "S1" THEN 10 ELSE 0]]
    /\ lots = <<>>
    /\ accounts = EmptyDb.accounts
    /\ transactions = <<>>
    /\ last = NoOp
    /\ outbox = <<>>
    /\ sync_state = [exists |-> FALSE, last_push_at |-> NoTime, last_pull_at |-> NoTime]
    /\ clock = 1
    /\ cycle = [p \in Runners |-> Idle]
    /\ SYNC_RUNNING = FALSE
    /\ SYNC_STOP_FLAG = FALSE
    /\ callers = [t \in Callers |-> "idle"]
    /\ workers = <<>>
    /\ relay = <<>>
    /\ pull = NoPull
    /\ applied = {}
    /\ tx = NoTx
    /\ seen = NoRead
    /\ cache = NewCache
    /\ instant = 0
    /\ stock_cards = StockCards
    /\ received = <<>>
    /\ recent = <<>>
    /\ wanted = "none"
    /\ engine = Unlocked

\* The aggregate a caller computes from the store: the quantity in stock.
RECURSIVE StockTotal(_, _)
StockTotal(rows, skus) ==
    IF skus = {} THEN 0
    ELSE LET s == CHOOSE x \in skus : TRUE
         IN  rows[s].quantity + StockTotal(rows, skus \ {s})

CacheFrame == UNCHANGED <<syncVars, workerVars, relayVars, isolationVars, stock_cards, received, recent, engine>>

\* The call before: its method and, for a method that takes a key, the key.
KeyedOps == {"get_item", "set_item", "invalidate_item", "get_aggregate", "set_aggregate"}
Prior(l) == IF l.op \in KeyedOps THEN <<l.op, l.request.key>> ELSE <<l.op, "">>

\* get_item; the response records the entry the map held and the call before.
CacheGetItem(sku) ==
    /\ LET out == get_item(cache, sku, instant)
       IN  /\ cache' = out.cache
           /\ last' = [NoOp EXCEPT !.op = "get_item",
                                   !.request = [key |-> sku, returned |-> out.value,
                                                found |-> LruPeek(cache.items_by_sku, sku),
                                                prior |-> Prior(last)]]
    /\ UNCHANGED <<items, lots, accounts, transactions, instant>>
    /\ CacheFrame

\* set_item with the row of the sku as the store holds it.
CacheSetItem(sku) ==
    /\ sku \in DOMAIN items
    /\ cache' = set_item(cache, sku, items[sku].quantity, instant)
    /\ last' = [NoOp EXCEPT !.op = "set_item", !.request = [key |-> sku, returned |-> None]]
    /\ UNCHANGED <<items, lots, accounts, transactions, instant>>
    /\ CacheFrame

CacheInvalidateItem(sku) ==
    /\ cache' = invalidate_item(cache, sku)
    /\ last' = [NoOp EXCEPT !.op = "invalidate_item",
                            !.request = [key |-> sku, returned |-> None]]
    /\ UNCHANGED <<items, lots, accounts, transactions, instant>>
    /\ CacheFrame

CacheGetAggregate(slot) ==
    /\ last' = [NoOp EXCEPT !.op = "get_aggregate",
                            !.request = [key |-> slot,
                                         returned |-> get_aggregate(cache, slot, instant)]]
    /\ UNCHANGED <<items, lots, accounts, transactions, cache, instant>>
    /\ CacheFrame

\* A setter of an aggregate slot with the aggregate as the store gives it.
CacheSetAggregate(slot) ==
    /\ cache' = set_aggregate(cache, slot, StockTotal(items, DOMAIN items), instant)
    /\ last' = [NoOp EXCEPT !.op = "set_aggregate",
                            !.request = [key |-> slot, returned |-> None]]
    /\ UNCHANGED <<items, lots, accounts, transactions, instant>>
    /\ CacheFrame

CacheInvalidateAll ==
    /\ cache' = invalidate_all(cache)
    /\ last' = [NoOp EXCEPT !.op = "invalidate_all"]
    /\ UNCHANGED <<items, lots, accounts, transactions, instant>>
    /\ CacheFrame

CacheInvalidateAggregates ==
    /\ cache' = invalidate_aggregates(cache)
    /\ last' = [NoOp EXCEPT !.op = "invalidate_aggregates"]
    /\ UNCHANGED <<items, lots, accounts, transactions, instant>>
    /\ CacheFrame

\* Time passes on the monotonic clock.
Elapse ==
    /\ instant < MaxInstant
    /\ instant' = instant + 1
    /\ last' = NoOp
    /\ UNCHANGED <<items, lots, accounts, transactions, cache>>
    /\ CacheFrame

\* The update_quantity command: UPDATE inventory_items SET quantity = ?1 WHERE
\* sku = ?3, refused by the table's CHECK for a negative quantity.
UpdateQuantity(sku, quantity) ==
    /\ items' = IF sku \in DOMAIN items /\ CheckItem([items[sku] EXCEPT !.quantity = quantity])
                THEN [items EXCEPT ![sku].quantity = quantity]
                ELSE items
    /\ last' = [NoOp EXCEPT !.op = "update_quantity",
                            !.request = [key |-> sku, returned |-> None],
                            !.result = IF sku \in DOMAIN items /\ quantity < 0
                                       THEN "StorageError" ELSE "ok",
                            !.pre = Db]
    /\ UNCHANGED <<lots, accounts, transactions, cache, instant>>
    /\ CacheFrame

CacheNext ==
    \/ \E sku \in Skus : CacheGetItem(sku) \/ CacheSetItem(sku) \/ CacheInvalidateItem(sku)
    \/ \E slot \in Slots : CacheGetAggregate(slot) \/ CacheSetAggregate(slot)
    \/ CacheInvalidateAll
    \/ CacheInvalidateAggregates
    \/ Elapse

SpecCache == CacheInit /\ [][CacheNext]_vars

\* The steps of the cache, told by the response they leave.
InLru(c, sku) == LruPeek(c.items_by_sku, sku).some
IsCall(op, key) == last'.op = op /\ last'.request.key = key

\* C21: get_item(sku) after invalidate_item(sku) with no set_item(sku) in between
\* returns None: invalidate_item(sku) leaves no entry of the sku, only
\* set_item(sku) makes an entry of the sku appear, whatever is done to other skus
\* and slots, and get_item(sku) with no entry of the sku, or right after
\* invalidate_item(sku), returns None.
C21_MissAfterInvalidate ==
    [][\A sku \in Skus :
         /\ IsCall("invalidate_item", sku) => ~InLru(cache', sku)
         /\ (~InLru(cache, sku) /\ InLru(cache', sku)) => IsCall("set_item", sku)
         /\ (IsCall("get_item", sku) /\ ~InLru(cache, sku))
               => ~last'.request.returned.some
         /\ (IsCall("get_item", sku) /\ last'.request.prior = <<"invalidate_item", sku>>)
               => ~last'.request.returned.some]_vars

\* C21 witness: get_item(S1) called right after invalidate_item(S1) returned None,
\* while an entry of S2 set earlier is still in the map.
C21_Witness ==
    /\ last.op = "get_item"
    /\ last.request.key = "S1"
    /\ last.request.prior = <<"invalidate_item", "S1">>
    /\ ~last.request.returned.some
    /\ InLru(cache, "S2")

\* C22: no value is returned after its TTL: a setter stamps the entry with the
\* time of the call plus the TTL of its kind, an entry changes only by its setter
\* or by being dropped, a getter returns only the entry stored and only while the
\* clock has not passed its stamp, and get_item of an entry past its stamp
\* returns None and leaves no entry of the sku in the map.
C22_NothingAfterTtl ==
    [][/\ \A slot \in Slots :
            /\ IsCall("set_aggregate", slot)
                  => cache'[slot].some /\ cache'[slot].expires_at = instant + AggregateTtl
            /\ cache'[slot] # cache[slot]
                  => IsCall("set_aggregate", slot) \/ cache'[slot] = None
            /\ IsCall("get_aggregate", slot)
                  => IF cache[slot].some /\ instant <= cache[slot].expires_at
                     THEN last'.request.returned = cache[slot]
                     ELSE last'.request.returned = None
       /\ \A sku \in Skus :
            /\ IsCall("set_item", sku)
                  => LruPeek(cache'.items_by_sku, sku).expires_at = instant + ItemTtl
            /\ LruPeek(cache'.items_by_sku, sku) # LruPeek(cache.items_by_sku, sku)
                  => IsCall("set_item", sku) \/ ~InLru(cache', sku)
            /\ IsCall("get_item", sku)
                  => IF InLru(cache, sku)
                        /\ instant <= LruPeek(cache.items_by_sku, sku).expires_at
                     THEN last'.request.returned = LruPeek(cache.items_by_sku, sku)
                     ELSE last'.request.returned = None /\ ~InLru(cache', sku)]_vars

\* C22 witness: get_item read an entry one minute past its five minutes, returned
\* None and removed it, while the all_items slot, set and never invalidated, is
\* past its minute.
C22_Witness ==
    /\ last.op = "get_item"
    /\ last.request.found.some
    /\ instant = last.request.found.expires_at + 1
    /\ ~last.request.returned.some
    /\ ~InLru(cache, last.request.key)
    /\ cache.all_items.some
    /\ instant > cache.all_items.expires_at

\* The price a line is charged at: the stored price of a sku in the store, the
\* submitted price of any other line.
AuthoritativePrice(db, item) ==
    IF item.sku \in DOMAIN db.items THEN db.items[item.sku].price ELSE item.price

RECURSIVE ExpectedTotal(_, _, _)
ExpectedTotal(db, cart, i) ==
    IF i > Len(cart) THEN 0
    ELSE AuthoritativePrice(db, cart[i]) * cart[i].cart_quantity
         + ExpectedTotal(db, cart, i + 1)

\* C25: the total a successful process_sale returns is the sum over the cart lines
\* of the authoritative price times the quantity, negated exactly for RETURN, and
\* it is the total of the transactions row the call inserted.
C25_Total ==
    IsOk =>
      LET sum == ExpectedTotal(last.pre, LastCart, 1)
      IN  /\ last.total = IF last.transaction_type = "RETURN" THEN 0 - sum ELSE sum
          /\ Len(transactions) = Len(last.pre.transactions) + 1
          /\ transactions[Len(transactions)].total = last.total

\* C25 witness: a successful RETURN of two lines, one of a stored sku at a
\* submitted price that differs from the stored one inside the tolerance, whose
\* total is not zero and is not the sum of the submitted prices.
C25_Witness ==
    /\ IsOk
    /\ last.transaction_type = "RETURN"
    /\ Len(LastCart) = 2
    /\ \E i \in 1..2 : /\ LastCart[i].sku \in DOMAIN last.pre.items
                        /\ LastCart[i].price # last.pre.items[LastCart[i].sku].price
    /\ last.total < 0
    /\ last.total # 0 - (LastCart[1].price * LastCart[1].cart_quantity
                         + LastCart[2].price * LastCart[2].cart_quantity)

(***************************************************************************)
(* Sales and remote applies on stores with several lots                    *)
(***************************************************************************)
\* Stores with S1 and S2 in stock and up to MaxLots lots of their products, in
\* creation order; a lot may be empty or, after a receipt of a negative
\* quantity, below zero.
LotsInit ==
    /\ items \in {[s \in Skus |-> [id |-> IF s = "S1" THEN "p1" ELSE "p2", name |-> CardName,
                                   quantity |-> IF s = "S1" THEN q ELSE 1,
                                   price |-> IF s = "S1" THEN 10 ELSE 0]] : q \in 1..MaxQty}
    /\ lots \in UNION {[1..n -> [product_id : ProductIds, quantity : -1..MaxQty,
                                 initial_quantity : {MaxQty}]] : n \in 0..MaxLots}
    /\ accounts = EmptyDb.accounts
    /\ transactions = <<>>
    /\ last = NoOp
    /\ outbox = <<>>
    /\ sync_state = [exists |-> FALSE, last_push_at |-> NoTime, last_pull_at |-> NoTime]
    /\ clock = 1
    /\ cycle = [p \in Runners |-> Idle]
    /\ SYNC_RUNNING = FALSE
    /\ SYNC_STOP_FLAG = FALSE
    /\ callers = [t \in Callers |-> "idle"]
    /\ workers = <<>>
    /\ relay = <<>>
    /\ pull = NoPull
    /\ applied = {}
    /\ tx = NoTx
    /\ seen = NoRead
    /\ cache = NewCache
    /\ instant = 0
    /\ stock_cards = StockCards
    /\ received = <<>>
    /\ recent = <<>>
    /\ wanted = "none"
    /\ engine = Unlocked

\* One call on each store: a process_sale or a remote apply.
LotsNext == ProcessSale \/ ApplyRemote

SpecLots == LotsInit /\ [][LotsNext]_vars

\* The lots of product_id among rows, as their positions.
LotsOf(rows, product_id) == {j \in 1..Len(rows) : rows[j].product_id = product_id}

\* The quantity the lines of the cart take of sku.
RECURSIVE Needed(_, _, _)
Needed(cart, i, sku) ==
    IF i > Len(cart) THEN 0
    ELSE (IF cart[i].sku = sku /\ cart[i].price >= 0 THEN cart[i].cart_quantity ELSE 0)
         + Needed(cart, i + 1, sku)

\* The sum of the quantities of the lots of product_id that hold stock.
RECURSIVE Stocked(_, _, _)
Stocked(rows, product_id, j) ==
    IF j > Len(rows) THEN 0
    ELSE (IF rows[j].product_id = product_id /\ rows[j].quantity > 0
          THEN rows[j].quantity ELSE 0)
         + Stocked(rows, product_id, j + 1)

\* C26: a successful SALE consumes lots first in, first out.  For every sku of
\* the store: no lot of its product gains; a lot lost quantity only if it held
\* stock and every older lot of the product that held stock is now at 0; at most
\* one lot of the product is left partly consumed; and the lots lost, in total,
\* the quantity sold or all the stock they held, whichever is less.
C26_Fifo ==
    (IsOk /\ last.transaction_type = "SALE") =>
      /\ Len(lots) = Len(last.pre.lots)
      /\ \A sku \in DOMAIN last.pre.items :
           LET product_id == last.pre.items[sku].id
               before == last.pre.lots
               mine == LotsOf(before, product_id)
               lost(j) == before[j].quantity - lots[j].quantity
           IN  /\ \A j \in mine : lost(j) >= 0
               /\ \A j \in mine :
                    lost(j) > 0 =>
                      /\ before[j].quantity > 0
                      /\ lots[j].quantity >= 0
                      /\ \A i \in mine : (i < j /\ before[i].quantity > 0)
                                             => lots[i].quantity = 0
               /\ Cardinality({j \in mine : lost(j) > 0 /\ lots[j].quantity > 0}) <= 1
               /\ Stocked(before, product_id, 1) - Stocked(lots, product_id, 1)
                    = Min(Needed(LastCart, 1, sku), Stocked(before, product_id, 1))

\* C26 witness: a SALE of S1 on a store whose two lots of S1 both held stock left
\* the older lot empty and the newer one partly consumed.
C26_Witness ==
    /\ IsOk
    /\ last.transaction_type = "SALE"
    /\ Len(lots) = 2
    /\ \A j \in 1..2 : last.pre.lots[j].product_id = "p1" /\ last.pre.lots[j].quantity > 0
    /\ lots[1].quantity = 0
    /\ lots[2].quantity > 0
    /\ lots[2].quantity < last.pre.lots[2].quantity

\* C27: process_sale changes lots only as a successful SALE: a call of another
\* type and a failed call leave the lots as they were, no call deletes or adds a
\* lot or changes a lot's product or initial_quantity, and a remote apply other
\* than an item deletion leaves the lots as they were.
C27_OnlySaleConsumes ==
    /\ (LastSale /\ (last.transaction_type # "SALE" \/ last.result # "ok"))
         => lots = last.pre.lots
    /\ LastSale =>
         /\ Len(lots) = Len(last.pre.lots)
         /\ \A j \in 1..Len(lots) :
              /\ lots[j].product_id = last.pre.lots[j].product_id
              /\ lots[j].initial_quantity = last.pre.lots[j].initial_quantity
    /\ (last.op = "apply_remote" /\ last.request.action_type # "ITEM_DELETE")
         => lots = last.pre.lots

\* C27 witness: a successful RETURN of S1 on a store with a lot of S1 that holds
\* stock changed the quantity of S1 and left the lots as they were.
C27_Witness ==
    /\ IsOk
    /\ last.transaction_type = "RETURN"
    /\ \E j \in 1..Len(lots) : lots[j].product_id = "p1" /\ lots[j].quantity > 0
    /\ items["S1"].quantity # last.pre.items["S1"].quantity
    /\ lots = last.pre.lots

(***************************************************************************)
(* The balance step of process_sale                                        *)
(***************************************************************************)
\* Counterparties a call may name: none, a customer, a supplier, an id without
\* an account.
AnyCounterparty == {NoCustomer, "ghost"} \cup Customers \cup Suppliers

\* Stores with S1 and S2 in stock, a supplier account and a customer account of
\* type CUSTOMER or BOTH.
BalanceInit ==
    /\ items = [s \in Skus |-> [id |-> IF s = "S1" THEN "p1" ELSE "p2", name |-> CardName,
                                 quantity |-> 2, price |-> IF s = "S1" THEN 10 ELSE 0]]
    /\ lots = <<>>
    /\ accounts \in {[a \in Customers \cup Suppliers |->
                        [account_type |-> IF a \in Suppliers THEN "SUPPLIER" ELSE t,
                         balance |-> 0]] : t \in {"CUSTOMER", "BOTH"}}
    /\ transactions = <<>>
    /\ last = NoOp
    /\ outbox = <<>>
    /\ sync_state = [exists |-> FALSE, last_push_at |-> NoTime, last_pull_at |-> NoTime]
    /\ clock = 1
    /\ cycle = [p \in Runners |-> Idle]
    /\ SYNC_RUNNING = FALSE
    /\ SYNC_STOP_FLAG = FALSE
    /\ callers = [t \in Callers |-> "idle"]
    /\ workers = <<>>
    /\ relay = <<>>
    /\ pull = NoPull
    /\ applied = {}
    /\ tx = NoTx
    /\ seen = NoRead
    /\ cache = NewCache
    /\ instant = 0
    /\ stock_cards = StockCards
    /\ received = <<>>
    /\ recent = <<>>
    /\ wanted = "none"
    /\ engine = Unlocked

BalanceNext == ProcessSaleWith(PaymentMethods, AnyCounterparty)

SpecBalance == BalanceInit /\ [][BalanceNext]_vars

\* C28: after a successful process_sale the balance of every account is what it
\* was, except that of the counterparty named when the type is RETURN or
\* COLLECTION or the payment method is VERESIYE, which changed by the total for
\* RETURN, by minus the absolute total for COLLECTION, and otherwise by minus the
\* total for a SUPPLIER account and by the total for any other account.
C28_BalanceDelta ==
    IsOk =>
      LET row == transactions[Len(transactions)]
          qualifies == row.transaction_type \in {"RETURN", "COLLECTION"}
                       \/ row.payment_method = "VERESIYE"
          delta(a) == IF row.transaction_type = "RETURN" THEN row.total
                      ELSE IF row.transaction_type = "COLLECTION" THEN 0 - Abs(row.total)
                      ELSE IF last.pre.accounts[a].account_type = "SUPPLIER"
                           THEN 0 - row.total
                           ELSE row.total
      IN  /\ DOMAIN accounts = DOMAIN last.pre.accounts
          /\ \A a \in DOMAIN accounts :
               /\ accounts[a].account_type = last.pre.accounts[a].account_type
               /\ accounts[a].balance - last.pre.accounts[a].balance
                    = IF a = row.customer_id /\ qualifies THEN delta(a) ELSE 0

\* C28 witness: a successful cash COLLECTION of a positive total from the customer
\* lowered the customer's balance by the total and left the supplier's as it was.
C28_Witness ==
    /\ IsOk
    /\ transactions[Len(transactions)].transaction_type = "COLLECTION"
    /\ transactions[Len(transactions)].payment_method = "NAKIT"
    /\ transactions[Len(transactions)].customer_id = "cust"
    /\ last.total > 0
    /\ accounts["cust"].balance = last.pre.accounts["cust"].balance - last.total
    /\ accounts["supp"].balance = last.pre.accounts["supp"].balance

(***************************************************************************)
(* The batch of a push, on outboxes of several rows                        *)
(***************************************************************************)
BatchLimit == 2      \* the LIMIT of a push batch (100), scaled so that a batch holds several rows
MaxRows == 3         \* rows of sync_outbox when a batch is read

\* Outboxes a push may find: rows in insertion order, their transaction_time not
\* decreasing (the clock queue_transaction reads does not run backwards), each
\* pending or synced.
Outboxes ==
    {rows \in UNION {[1..n -> [id : 1..MaxRows, transaction_time : 1..MaxClock,
                               synced : {0, 1}]] : n \in 0..MaxRows} :
        /\ \A i \in 1..Len(rows) : rows[i].id = i
        /\ \A i, j \in 1..Len(rows) :
               i < j => rows[i].transaction_time <= rows[j].transaction_time}

PendingInit ==
    /\ items = EmptyDb.items
    /\ lots = EmptyDb.lots
    /\ accounts = EmptyDb.accounts
    /\ transactions = EmptyDb.transactions
    /\ last = NoOp
    /\ outbox \in Outboxes
    /\ sync_state = [exists |-> FALSE, last_push_at |-> NoTime, last_pull_at |-> NoTime]
    /\ clock = MaxClock
    /\ cycle = [p \in Runners |-> Idle]
    /\ SYNC_RUNNING = FALSE
    /\ SYNC_STOP_FLAG = FALSE
    /\ callers = [t \in Callers |-> "idle"]
    /\ workers = <<>>
    /\ relay = <<>>
    /\ pull = NoPull
    /\ applied = {}
    /\ tx = NoTx
    /\ seen = NoRead
    /\ cache = NewCache
    /\ instant = 0
    /\ stock_cards = StockCards
    /\ received = <<>>
    /\ recent = <<>>
    /\ wanted = "none"
    /\ engine = Unlocked

PendingNext == \E p \in Runners : PushReadWith(p, BatchLimit)

SpecPending == PendingInit /\ [][PendingNext]_vars

\* The batch runner p has read for its POST.
Reads(p) == cycle[p].pc = "idle" /\ cycle'[p].pc \in {"sent", "pushed"}

\* C29: the batch of a push holds min(limit, number pending) entries, all
\* pending, no entry twice, in ascending transaction_time, and no pending entry
\* left out is older than an entry of the batch; with nothing pending nothing is
\* sent.
C29_BatchOldestPending ==
    [][\A p \in Runners :
         Reads(p) =>
           LET batch == cycle'[p].batch
               n == Len(batch)
           IN  /\ n = Min(BatchLimit, get_pending_count(outbox))
               /\ cycle'[p].pc = "pushed" <=> n = 0
               /\ \A i \in 1..n : batch[i] \in 1..Len(outbox) /\ outbox[batch[i]].synced = 0
               /\ \A i, j \in 1..n :
                      i < j => /\ batch[i] # batch[j]
                               /\ outbox[batch[i]].transaction_time
                                    <= outbox[batch[j]].transaction_time
               /\ \A k \in Pending(outbox) :
                      (\A i \in 1..n : batch[i] # k)
                        => \A i \in 1..n : outbox[batch[i]].transaction_time
                                              <= outbox[k].transaction_time]_vars

\* C29 witness: of three rows the oldest is synced and the two younger ones, of
\* different transaction_time, are pending; the worker's batch is the two pending
\* rows, the older first.
C29_Witness ==
    /\ Len(outbox) = 3
    /\ outbox[1].synced = 1 /\ outbox[2].synced = 0 /\ outbox[3].synced = 0
    /\ outbox[2].transaction_time < outbox[3].transaction_time
    /\ cycle["worker"].pc = "sent"
    /\ cycle["worker"].batch = <<2, 3>>

(***************************************************************************)
(* What the relay receives from one device                                 *)
(***************************************************************************)
MaxReceived == 4     \* entries the relay is followed through

\* The POST of runner p reaches the relay: the entries of its batch arrive in
\* the order of the request body. A request may also never arrive.
Deliver(p) ==
    /\ cycle[p].pc = "sent"
    /\ ~cycle[p].delivered
    /\ Len(received) + Len(cycle[p].batch) <= MaxReceived
    /\ received' = received \o cycle[p].batch
    /\ cycle' = [cycle EXCEPT ![p].delivered = TRUE]
    /\ UNCHANGED <<outbox, sync_state, clock>>
    /\ UNCHANGED <<storeVars, workerVars, relayVars, isolationVars, cacheVars, stock_cards,
                   recent, engine>>

\* The answer to the POST: the relay acknowledges only a request it received.
OrderRespond(p) ==
    /\ PushRespond(p)
    /\ Acknowledged(cycle'[p].response) => cycle[p].delivered

\* The rest of perform_sync (pull and heartbeat) leaves the outbox alone; the
\* runner is then free for its next cycle.
OrderReturn(p) ==
    /\ cycle[p].pc = "pushed"
    /\ cycle' = [cycle EXCEPT ![p] = Idle]
    /\ UNCHANGED <<outbox, sync_state, clock>>
    /\ UNCHANGED <<storeVars, otherVars>>

OrderNext ==
    \/ QueueTransaction
    \/ Tick
    \/ \E p \in Runners : PushReadWith(p, BatchLimit)
    \/ \E p \in Runners : Deliver(p)
    \/ \E p \in Runners : OrderRespond(p)
    \/ \E p \in Runners : MarkAsSynced(p)
    \/ \E p \in Runners : MarkFails(p)
    \/ \E p \in Runners : PushStamp(p)
    \/ \E p \in Runners : OrderReturn(p)

SpecOrder == Init /\ [][OrderNext]_vars

\* transaction_time of the i-th entry the relay received.
ReceivedTime(i) == outbox[received[i]].transaction_time

\* C30 as stated: the entries the relay receives are in non-decreasing
\* transaction_time order.
C30_ReceivedNonDecreasing ==
    \A i, j \in 1..Len(received) : i < j => ReceivedTime(i) <= ReceivedTime(j)

\* C30 amended: an entry the relay receives for the first time is not older
\* than any entry it received before; only entries it has received already
\* come again out of order.
C30_FirstReceptionNonDecreasing ==
    \A i, j \in 1..Len(received) :
        (i < j /\ \A k \in 1..(j - 1) : received[k] # received[j])
            => ReceivedTime(i) <= ReceivedTime(j)

\* C30 witness: a push was repeated and the relay has received an older entry
\* after a younger one.
C30_Witness ==
    \E i, j \in 1..Len(received) : i < j /\ ReceivedTime(i) > ReceivedTime(j)

(***************************************************************************)
(* The cursors of push and pull                                            *)
(***************************************************************************)
\* Runner p sends its pull request in this step.
PullSends(p) == cycle[p].pc = "pushed" /\ cycle'[p].pc = "pulling"

\* The pull of runner p succeeds in this step.
PullSucceeds(p) ==
    cycle[p].pc = "pulling" /\ cycle'[p].pc = "pulled" /\ cycle'[p].result = "ok"

\* C31: last_pull_at is absent until a pull succeeds, a successful pull writes
\* its time there and nothing else changes it (a push that creates the row
\* leaves it absent); every pull request carries as `since` the value of
\* last_pull_at when it is sent, so no cursor before the first successful pull
\* and the time of the most recent successful pull after it.
C31_SinceCursor ==
    /\ sync_state.last_pull_at = NoTime
    /\ [][/\ \A p \in Runners :
               /\ PullSends(p) => cycle'[p].since = sync_state.last_pull_at
               /\ PullSucceeds(p) =>
                     sync_state'.last_pull_at = clock /\ clock # NoTime
          /\ (\A p \in Runners : ~PullSucceeds(p))
                => sync_state'.last_pull_at = sync_state.last_pull_at]_vars

\* C31 witness: a push has succeeded and created the sync_state row, no pull has
\* succeeded, and the worker's pull request is out without a cursor.
C31_Witness ==
    /\ sync_state.exists
    /\ sync_state.last_push_at # NoTime
    /\ sync_state.last_pull_at = NoTime
    /\ cycle["worker"].pc = "pulling"
    /\ cycle["worker"].since = NoTime

(***************************************************************************)
(* Remote quantity changes                                                 *)
(***************************************************************************)
\* The last operation applied a remote SALE, STOCK_OUT or STOCK_IN.
QuantityApplied ==
    /\ last.op = "apply_remote"
    /\ last.request.action_type \in {"SALE", "STOCK_OUT", "STOCK_IN"}

\* The items of the store before the last operation, the quantity of sku set to q.
WithQuantity(sku, q) == [last.pre.items EXCEPT ![sku].quantity = q]

\* C32 as stated: a remote SALE or STOCK_OUT sets the quantity of an existing sku
\* to max(0, Q + c), a remote STOCK_IN sets it to Q + c, no other item changes,
\* and for a sku that does not exist the apply succeeds and changes nothing.
C32_RemoteQuantity ==
    QuantityApplied =>
        LET txn == last.request
            sku == txn.item_sku
        IN  /\ last.result = "ok"
            /\ IF sku \in DOMAIN last.pre.items
               THEN LET sum == last.pre.items[sku].quantity + txn.quantity_change
                    IN  items = WithQuantity(sku, IF txn.action_type = "STOCK_IN"
                                                  THEN sum ELSE Max(0, sum))
               ELSE items = last.pre.items

\* C32 amended: as stated, except that a remote STOCK_IN whose Q + c is negative
\* fails with a storage error and changes nothing.
C32_RemoteQuantityChecked ==
    QuantityApplied =>
        LET txn == last.request
            sku == txn.item_sku
            found == sku \in DOMAIN last.pre.items
            sum == last.pre.items[sku].quantity + txn.quantity_change
        IN  IF found /\ txn.action_type = "STOCK_IN" /\ sum < 0
            THEN last.result = "StorageError" /\ items = last.pre.items
            ELSE /\ last.result = "ok"
                 /\ IF found
                    THEN items = WithQuantity(sku, IF txn.action_type = "STOCK_IN"
                                                   THEN sum ELSE Max(0, sum))
                    ELSE items = last.pre.items

\* C32 witness: a remote SALE of one more unit than an existing sku holds was
\* applied while another item was in the store.
C32_Witness ==
    /\ QuantityApplied
    /\ last.request.action_type = "SALE"
    /\ last.request.item_sku \in DOMAIN last.pre.items
    /\ last.pre.items[last.request.item_sku].quantity + last.request.quantity_change < 0
    /\ Cardinality(DOMAIN items) = 2
    /\ last.result = "ok"

(***************************************************************************)
(* A pull that fails part way and is repeated.  The relay is taken as the  *)
(* wire contract describes it (RelaySince).                                *)
(***************************************************************************)
MaxPulls == 2        \* pulls the device is followed through

\* Quantity changes other devices may have recorded.
RetryTransactions ==
    [action_type : {"SALE", "STOCK_IN"}, item_sku : Skus, item_name : {CardName},
     quantity_change : {-1, 1}, new_value : {0}]

\* Both skus in stock, and two entries of other devices recorded at the relay.
RetryInit ==
    /\ items = [s \in Skus |-> [id |-> IF s = "S1" THEN "p1" ELSE "p2", name |-> CardName,
                                 quantity |-> 1, price |-> 0]]
    /\ lots = <<>>
    /\ accounts = EmptyDb.accounts
    /\ transactions = <<>>
    /\ last = NoOp
    /\ outbox = <<>>
    /\ sync_state = [exists |-> FALSE, last_push_at |-> NoTime, last_pull_at |-> NoTime]
    /\ clock = 1
    /\ cycle = [p \in Runners |-> Idle]
    /\ SYNC_RUNNING = FALSE
    /\ SYNC_STOP_FLAG = FALSE
    /\ callers = [t \in Callers |-> "idle"]
    /\ workers = <<>>
    /\ relay \in [1..2 -> [time : {1}, txn : RetryTransactions]]
    /\ pull = NoPull
    /\ applied = <<>>
    /\ tx = NoTx
    /\ seen = NoRead
    /\ cache = NewCache
    /\ instant = 0
    /\ stock_cards = StockCards
    /\ received = <<>>
    /\ recent = <<>>
    /\ wanted = "none"
    /\ engine = Unlocked

\* pull_from_cloud up to its POST.
RetryPullSend ==
    /\ pull.pc = "idle"
    /\ Len(applied) < MaxPulls
    /\ pull' = [pc |-> "sent", since |-> LastReceived(sync_state), returned |-> {}]
    /\ UNCHANGED <<relay, applied>>
    /\ UNCHANGED <<storeVars, syncVars, workerVars, isolationVars, moreVars>>

\* The entries of a relay answer in the order of the log.
RECURSIVE Returned(_, _, _)
Returned(log, ids, i) ==
    IF i > Len(log) THEN <<>>
    ELSE (IF i \in ids THEN <<log[i].txn>> ELSE <<>>) \o Returned(log, ids, i + 1)

\* The answer arrives with success: the loop over the returned transactions and,
\* if it ran through, the write of last_pull_at.
RetryPullApply ==
    /\ pull.pc = "answered"
    /\ LET txns == Returned(relay, pull.returned, 1)
       IN  \E failAt \in 0..Len(txns) :
             LET out == ApplyBatch(Db, txns, 1, TRUE, failAt)
             IN  /\ Commit(out.db)
                 /\ sync_state' = AdvanceCursor(sync_state, out.result, clock)
                 /\ applied' = Append(applied,
                                  [result |-> out.result, since |-> pull.since,
                                   txns |-> txns, done |-> out.done,
                                   pre |-> Db, post |-> out.db,
                                   cursor |-> sync_state.last_pull_at])
    /\ pull' = NoPull
    /\ UNCHANGED <<relay, outbox, clock, cycle, last>>
    /\ UNCHANGED <<workerVars, isolationVars, moreVars>>

RetryNext == RetryPullSend \/ RelayPullAnswer \/ RetryPullApply \/ Tick

SpecRetry == RetryInit /\ [][RetryNext]_vars

\* The store after the first n of the transactions, each applied on its own.
RECURSIVE ApplyPrefix(_, _, _)
ApplyPrefix(db, txns, n) ==
    IF n = 0 THEN db
    ELSE ApplyRemoteTransaction(ApplyPrefix(db, txns, n - 1), txns[n], TRUE).db

\* C33: a pull whose k-th apply fails leaves the first k-1 transactions applied
\* and last_pull_at as it was; the next pull sends the same cursor, is answered
\* with the same transactions and, when it succeeds, applies all of them on top
\* of the k-1 already applied.
C33_PrefixAppliedTwice ==
    \A j \in 1..Len(applied) :
        LET h == applied[j]
            kept == ApplyPrefix(h.pre, h.txns, h.done)
        IN  h.result # "ok" =>
              /\ h.done < Len(h.txns)
              /\ h.post = kept
              /\ IF j = Len(applied)
                 THEN Db = kept /\ sync_state.last_pull_at = h.cursor
                 ELSE LET n == applied[j + 1]
                      IN  /\ n.cursor = h.cursor
                          /\ n.since = h.since
                          /\ n.txns = h.txns
                          /\ n.pre = kept
                          /\ n.result = "ok" =>
                                n.post = ApplyPrefix(kept, h.txns, Len(h.txns))

\* C33 witness: the second apply of a pull failed after a STOCK_IN of one unit
\* of S1 had been applied, the next pull succeeded, and S1 holds two units more
\* than before the first pull.
C33_Witness ==
    /\ Len(applied) = 2
    /\ applied[1].result # "ok" /\ applied[1].done = 1
    /\ applied[2].result = "ok"
    /\ applied[1].txns[1] = [action_type |-> "STOCK_IN", item_sku |-> "S1",
                              item_name |-> CardName, quantity_change |-> 1,
                              new_value |-> 0]
    /\ applied[1].txns[2].item_sku = "S2"
    /\ items["S1"].quantity = applied[1].pre.items["S1"].quantity + 2

(***************************************************************************)
(* The item cache as an LRU map: three skus on a map of two entries        *)
(***************************************************************************)
WideCapacity == 2    \* capacity of items_by_sku (500), scaled so that the order of use shows
LruKeys == Skus \cup {"S3"}

\* The sku moved to the front of the order of use.
Touch(order, sku) == <<sku>> \o SelectSeq(order, LAMBDA k : k # sku)

LruInit ==
    /\ items = [s \in LruKeys |-> [id |-> s, name |-> CardName, quantity |-> 1, price |-> 0]]
    /\ lots = <<>>
    /\ accounts = EmptyDb.accounts
    /\ transactions = <<>>
    /\ last = NoOp
    /\ outbox = <<>>
    /\ sync_state = [exists |-> FALSE, last_push_at |-> NoTime, last_pull_at |-> NoTime]
    /\ clock = 1
    /\ cycle = [p \in Runners |-> Idle]
    /\ SYNC_RUNNING = FALSE
    /\ SYNC_STOP_FLAG = FALSE
    /\ callers = [t \in Callers |-> "idle"]
    /\ workers = <<>>
    /\ relay = <<>>
    /\ pull = NoPull
    /\ applied = {}
    /\ tx = NoTx
    /\ seen = NoRead
    /\ cache = NewCacheOf(WideCapacity)
    /\ instant = 0
    /\ stock_cards = StockCards
    /\ received = <<>>
    /\ recent = <<>>
    /\ wanted = "none"
    /\ engine = Unlocked

LruFrame ==
    /\ UNCHANGED <<items, lots, accounts, transactions, instant>>
    /\ UNCHANGED <<syncVars, workerVars, relayVars, isolationVars, stock_cards, received, engine>>

\* set_item(sku, item)
LruSetItem(sku) ==
    /\ cache' = set_item(cache, sku, items[sku].quantity, instant)
    /\ recent' = Touch(recent, sku)
    /\ last' = [NoOp EXCEPT !.op = "set_item", !.request = [key |-> sku, returned |-> None]]
    /\ LruFrame

\* get_item(sku); a call that returns the item counts as a use of the sku.
LruGetItem(sku) ==
    /\ LET out == get_item(cache, sku, instant)
       IN  /\ cache' = out.cache
           /\ recent' = IF out.value.some THEN Touch(recent, sku) ELSE recent
           /\ last' = [NoOp EXCEPT !.op = "get_item",
                                   !.request = [key |-> sku, returned |-> out.value]]
    /\ LruFrame

LruInvalidateItem(sku) ==
    /\ cache' = invalidate_item(cache, sku)
    /\ last' = [NoOp EXCEPT !.op = "invalidate_item",
                            !.request = [key |-> sku, returned |-> None]]
    /\ UNCHANGED recent
    /\ LruFrame

LruInvalidateAll ==
    /\ cache' = invalidate_all(cache)
    /\ last' = [NoOp EXCEPT !.op = "invalidate_all"]
    /\ UNCHANGED recent
    /\ LruFrame

LruNext ==
    \/ \E sku \in LruKeys : LruSetItem(sku) \/ LruGetItem(sku) \/ LruInvalidateItem(sku)
    \/ LruInvalidateAll
    \/ Elapse

SpecLru == LruInit /\ [][LruNext]_vars

\* The skus the map holds.
Cached(c) == {c.items_by_sku[i].key : i \in 1..Len(c.items_by_sku)}

\* Of the skus the map holds, the one used longest ago.
LeastRecent(c, order) ==
    CHOOSE k \in Cached(c) :
        \A i, j \in 1..Len(order) : (order[i] = k /\ order[j] \in Cached(c)) => j <= i

\* C35: the map never holds more entries than its capacity nor a sku twice;
\* set_item leaves the sku it set in the map; set_item of a sku the map does not
\* hold, on a full map, removes exactly the sku that was set or found longest
\* ago, and every other call of set_item removes nothing.
C35_LruBound ==
    [][/\ Len(cache'.items_by_sku) <= cache'.capacity
       /\ Cardinality(Cached(cache')) = Len(cache'.items_by_sku)
       /\ \A sku \in LruKeys :
             IsCall("set_item", sku) =>
               /\ sku \in Cached(cache')
               /\ IF sku \notin Cached(cache) /\ Len(cache.items_by_sku) = cache.capacity
                  THEN Cached(cache') =
                         (Cached(cache) \ {LeastRecent(cache, recent)}) \cup {sku}
                  ELSE Cached(cache') = Cached(cache) \cup {sku}]_vars

\* C35 witness: S1 was set before S2 and then found by get_item, so S2 is the
\* sku used longest ago; S3 was set on the full map, S2 is gone and S1 and S3
\* are held.
C35_Witness ==
    /\ last.op = "set_item" /\ last.request.key = "S3"
    /\ recent = <<"S3", "S1", "S2">>
    /\ Cached(cache) = {"S1", "S3"}

(***************************************************************************)
(* Entries queued while a push is in flight                                *)
(***************************************************************************)
\* Entry i is in the batch of runner p.
InBatch(p, i) == \E k \in 1..Len(cycle[p].batch) : cycle[p].batch[k] = i

\* C36: an entry is flagged synced only by a runner that holds it in a batch the
\* relay answered with success; the batch of a push stays as it was read, so an
\* entry queued while the push is in flight is not in it and is pending when the
\* push returns; and the next batch read holds every pending entry, or is full
\* of pending entries.
C36_QueuedInFlightStaysPending ==
    [][/\ \A i \in 1..Len(outbox) :
            (outbox[i].synced = 0 /\ outbox'[i].synced = 1) =>
                \E p \in Runners :
                    /\ cycle[p].pc = "marking" /\ cycle'[p] # cycle[p]
                    /\ cycle[p].response = "Success"
                    /\ InBatch(p, i)
       /\ \A p \in Runners :
            /\ (cycle[p].pc \in InPush /\ cycle'[p].pc \in InPush \cup {"pushed"})
                  => cycle'[p].batch = cycle[p].batch
            /\ (cycle[p].pc \in InPush /\ Len(outbox') > Len(outbox))
                  => /\ ~InBatch(p, Len(outbox'))
                     /\ outbox'[Len(outbox')].synced = 0
            /\ (cycle[p].pc = "idle" /\ cycle'[p].pc \in {"sent", "pushed"})
                  => \/ \A i \in Pending(outbox) :
                           \E k \in 1..Len(cycle'[p].batch) : cycle'[p].batch[k] = i
                     \/ Len(cycle'[p].batch) = PushLimit]_vars

\* C36 witness: an entry was queued while the worker's push of the first entry
\* was in flight; the push has returned success, the first entry is synced and
\* the one queued meanwhile is pending.
C36_Witness ==
    /\ cycle["worker"].pc = "pushed" /\ cycle["worker"].result = "ok"
    /\ cycle["worker"].batch = <<1>>
    /\ ~cycle["worker"].quiet
    /\ Len(outbox) = 2
    /\ outbox[1].synced = 1 /\ outbox[2].synced = 0

(***************************************************************************)
(* The two cursors under interleaved cycles                                *)
(***************************************************************************)
\* push_to_cloud after mark_as_synced: `now` is read from the wall clock.
PushNow(p) ==
    /\ cycle[p].pc = "stamping"
    /\ cycle' = [cycle EXCEPT ![p].pc = "writing", ![p].now = clock]
    /\ UNCHANGED <<outbox, sync_state, clock>>
    /\ UNCHANGED <<storeVars, otherVars>>

\* push_to_cloud: the INSERT OR REPLACE that writes `now` into last_push_at and
\* copies last_pull_at from the row in the same statement; the count is returned.
PushWrite(p) ==
    /\ cycle[p].pc = "writing"
    /\ sync_state' = StampPush(sync_state, cycle[p].now)
    /\ cycle' = [cycle EXCEPT ![p].pc = "pushed", ![p].result = "ok"]
    /\ UNCHANGED <<outbox, clock>>
    /\ UNCHANGED <<storeVars, otherVars>>

\* The answer to the pull arrives and the returned transactions are applied one
\* by one; if all applied, `now` is read from the wall clock.
PullApply(p) ==
    /\ cycle[p].pc = "pulling"
    /\ \E kind \in ResponseKinds :
         \E txns \in IF Acknowledged(kind) THEN PullBatches ELSE {<<>>} :
           LET out == IF Acknowledged(kind) THEN ApplyAll(Db, txns, 1, PullForeignKeys)
                      ELSE [result |-> kind, db |-> Db]
           IN  /\ WithinBounds(out.db)
               /\ Commit(out.db)
               /\ outbox' = OutboxAfterPull(outbox, txns, clock)
               /\ cycle' = [cycle EXCEPT ![p] =
                              IF out.result = "ok"
                              THEN [@ EXCEPT !.pc = "pullwriting", !.now = clock,
                                             !.pulled = Len(txns)]
                              ELSE [@ EXCEPT !.pc = "pulled", !.result = out.result,
                                             !.pulled = Len(txns)]]
    /\ UNCHANGED <<sync_state, clock, last, otherVars>>

\* pull_from_cloud: the INSERT OR REPLACE that writes `now` into last_pull_at and
\* copies last_push_at from the row in the same statement; the count is returned.
PullWrite(p) ==
    /\ cycle[p].pc = "pullwriting"
    /\ sync_state' = StampPull(sync_state, cycle[p].now)
    /\ cycle' = [cycle EXCEPT ![p].pc = "pulled", ![p].result = "ok"]
    /\ UNCHANGED <<outbox, clock>>
    /\ UNCHANGED <<storeVars, otherVars>>

CursorNext ==
    \/ QueueTransaction
    \/ Tick
    \/ \E p \in Runners : PushRead(p)
    \/ \E p \in Runners : PushRespond(p)
    \/ \E p \in Runners : MarkAsSynced(p)
    \/ \E p \in Runners : MarkFails(p)
    \/ \E p \in Runners : PushNow(p)
    \/ \E p \in Runners : PushWrite(p)
    \/ \E p \in Runners : PullSend(p)
    \/ \E p \in Runners : PullApply(p)
    \/ \E p \in Runners : PullWrite(p)
    \/ \E p \in Runners : Heartbeat(p)
    \/ \E p \in Runners : PerformSyncReturns(p)

SpecCursor == Init /\ [][CursorNext]_vars

\* The cursor has a value and the step leaves it at an earlier one or at none.
MovesBack(before, after) == before # NoTime /\ (after = NoTime \/ after < before)

\* The write of a push leaves last_pull_at alone and the write of a pull leaves
\* last_push_at alone, however the cycles interleave.
CursorsIndependent ==
    [][/\ (\E p \in Runners : PushWrite(p))
             => sync_state'.last_pull_at = sync_state.last_pull_at
       /\ (\E p \in Runners : PullWrite(p))
             => sync_state'.last_push_at = sync_state.last_push_at]_vars

\* C39: a successful push writes last_push_at and leaves last_pull_at unchanged,
\* a successful pull writes last_pull_at and leaves last_push_at unchanged, also
\* when the cycles of the command and of the worker interleave; and neither
\* cursor ever moves back to an earlier value or to absent once it is set.
C39_CursorsIndependentMonotone ==
    [][/\ (\E p \in Runners : PushWrite(p))
             => sync_state'.last_pull_at = sync_state.last_pull_at
       /\ (\E p \in Runners : PullWrite(p))
             => sync_state'.last_push_at = sync_state.last_push_at
       /\ ~MovesBack(sync_state.last_push_at, sync_state'.last_push_at)
       /\ ~MovesBack(sync_state.last_pull_at, sync_state'.last_pull_at)]_vars

(***************************************************************************)
(* Sales and remote applies on different connections                       *)
(***************************************************************************)
MaxCommits == 2      \* operations the model lets commit

\* Carts of the concurrent sales: one line on S1 at its stored price.
ConcurrentCarts == {<<[sku |-> "S1", cart_quantity |-> n, price |-> 10]>> : n \in {1, 2}}
ConcurrentTypes == {"SALE", "RETURN"}

\* Entries the worker's pull applies while sales run: quantity changes of S1.
ConcurrentTransactions ==
    [action_type : {"SALE", "STOCK_IN"}, item_sku : {"S1"}, item_name : {CardName},
     quantity_change : {-1, 1}, new_value : {0}]

\* An engine that lets a transaction write on whatever snapshot it has read.
WriteLockAnySnapshot(e, c) == IF e.lock # "none" THEN "busy" ELSE "ok"

\* The first write statement of a deferred transaction under journal_mode = WAL:
\* it fails as busy while another connection holds the write lock (after the
\* busy timeout) and when another connection has committed since the
\* transaction took its read snapshot; otherwise it takes the write lock.
WriteLock(e, c) ==
    IF e.lock # "none" THEN "busy"
    ELSE IF e.conn[c].version # e.version THEN "busy"
    ELSE "ok"

\* The store of IsolationInit, with no transaction open on any connection.
ConcurrentInit ==
    /\ items \in {[s \in Skus |-> [id |-> IF s = "S1" THEN "p1" ELSE "p2", name |-> CardName,
                                   quantity |-> IF s = "S1" THEN q ELSE 1,
                                   price |-> IF s = "S1" THEN 10 ELSE 0]] : q \in 1..MaxQty}
    /\ lots \in {<<[product_id |-> "p1", quantity |-> q, initial_quantity |-> q]>> : q \in 1..MaxQty}
    /\ accounts = EmptyDb.accounts
    /\ transactions = <<>>
    /\ last = NoOp
    /\ outbox = <<>>
    /\ sync_state = [exists |-> FALSE, last_push_at |-> NoTime, last_pull_at |-> NoTime]
    /\ clock = 1
    /\ cycle = [p \in Runners |-> Idle]
    /\ SYNC_RUNNING = FALSE
    /\ SYNC_STOP_FLAG = FALSE
    /\ callers = [t \in Callers |-> "idle"]
    /\ workers = <<>>
    /\ relay = <<>>
    /\ pull = NoPull
    /\ applied = {}
    /\ tx = NoTx
    /\ seen = NoRead
    /\ cache = NewCache
    /\ instant = 0
    /\ stock_cards = StockCards
    /\ received = <<>>
    /\ recent = <<>>
    /\ wanted = "none"
    /\ engine = [Unlocked EXCEPT !.start = Db]

ConcurrentFrame ==
    UNCHANGED <<last, syncVars, workerVars, relayVars, isolationVars, cacheVars, stock_cards,
                received, recent>>

\* process_sale_transaction on connection c: conn.transaction() and step 1, whose
\* first SELECT takes the transaction's read snapshot.
ConcurrentSaleBegin(c) ==
    /\ engine.conn[c].pc = "none"
    /\ Len(engine.log) < MaxCommits
    /\ \E cart_items \in ConcurrentCarts, transaction_type \in ConcurrentTypes :
         /\ ValidateCart(Db, cart_items, 1, 0).error = "none"
         /\ engine' = [engine EXCEPT !.conn[c] =
                         [pc |-> "read", cart_items |-> cart_items,
                          transaction_type |-> transaction_type, snapshot |-> Db,
                          version |-> engine.version]]
    /\ UNCHANGED <<items, lots, accounts, transactions>>
    /\ ConcurrentFrame

\* Step 2, the INSERT INTO transactions: the first write of the transaction. If
\* it fails, `?` returns, the transaction is dropped and rolls back.
ConcurrentSaleInsert(c) ==
    /\ engine.conn[c].pc = "read"
    /\ engine' = IF WriteLock(engine, c) = "ok"
                 THEN [engine EXCEPT !.lock = c, !.conn[c].pc = "write"]
                 ELSE [engine EXCEPT !.conn[c].pc = "failed"]
    /\ UNCHANGED <<items, lots, accounts, transactions>>
    /\ ConcurrentFrame

\* Steps 3 and 4 and tx.commit(): the quantity is read (inventory.rs:527) in the
\* transaction's snapshot, the new value written (540) and all committed.
ConcurrentSaleCommit(c) ==
    /\ engine.conn[c].pc = "write"
    /\ LET t == engine.conn[c]
           out == ProcessSaleTransaction(t.snapshot, t.cart_items, "NAKIT",
                                         t.transaction_type, NoNote, NoCustomer, 0)
       IN  /\ out.result = "ok"
           /\ WithinBounds(out.db)
           /\ Commit(out.db)
           /\ engine' = [engine EXCEPT !.lock = "none", !.version = @ + 1,
                           !.conn[c].pc = "committed",
                           !.log = Append(@, [op |-> "process_sale",
                                              cart_items |-> t.cart_items,
                                              transaction_type |-> t.transaction_type,
                                              txn |-> <<>>, read |-> t.version])]
    /\ ConcurrentFrame

\* A statement of steps 3 and 4 or the commit fails: the transaction rolls back
\* and gives the write lock up.
ConcurrentSaleAbort(c) ==
    /\ engine.conn[c].pc = "write"
    /\ engine' = [engine EXCEPT !.lock = "none", !.conn[c].pc = "failed"]
    /\ UNCHANGED <<items, lots, accounts, transactions>>
    /\ ConcurrentFrame

\* process_sale_transaction returns on connection c.
ConcurrentSaleReturn(c) ==
    /\ engine.conn[c].pc \in {"committed", "failed"}
    /\ engine' = [engine EXCEPT !.conn[c] = NoSession]
    /\ UNCHANGED <<items, lots, accounts, transactions>>
    /\ ConcurrentFrame

\* apply_remote_transaction on the worker's connection: one autocommit UPDATE
\* that computes the new quantity from the stored one. While a sale holds the
\* write lock it waits, and past the busy timeout it fails with no effect.
ConcurrentApply ==
    /\ Len(engine.log) < MaxCommits
    /\ \E txn \in ConcurrentTransactions :
         IF engine.lock = "none"
         THEN LET out == ApplyRemoteTransaction(Db, txn, TRUE)
              IN  /\ out.result = "ok"
                  /\ WithinBounds(out.db)
                  /\ Commit(out.db)
                  /\ engine' = [engine EXCEPT !.version = @ + 1,
                                  !.log = Append(@, [op |-> "apply_remote",
                                                     cart_items |-> <<>>,
                                                     transaction_type |-> "",
                                                     txn |-> txn,
                                                     read |-> engine.version])]
         ELSE /\ engine' = [engine EXCEPT !.busy = TRUE]
              /\ UNCHANGED <<items, lots, accounts, transactions>>
    /\ ConcurrentFrame

ConcurrentNext ==
    \/ \E c \in SaleConns : ConcurrentSaleBegin(c)
    \/ \E c \in SaleConns : ConcurrentSaleInsert(c)
    \/ \E c \in SaleConns : ConcurrentSaleCommit(c)
    \/ \E c \in SaleConns : ConcurrentSaleAbort(c)
    \/ \E c \in SaleConns : ConcurrentSaleReturn(c)
    \/ ConcurrentApply

SpecConcurrent == ConcurrentInit /\ [][ConcurrentNext]_vars

\* The store after the operations log[i..] have run one after another on db.
RECURSIVE Replay(_, _, _)
Replay(db, log, i) ==
    IF i > Len(log) THEN db
    ELSE LET out == IF log[i].op = "process_sale"
                    THEN ProcessSaleTransaction(db, log[i].cart_items, "NAKIT",
                                                log[i].transaction_type, NoNote,
                                                NoCustomer, 0)
                    ELSE ApplyRemoteTransaction(db, log[i].txn, TRUE)
         IN  Replay(out.db, log, i + 1)

\* Every stored quantity is what the committed operations give when they run one
\* after another, in the order of their commits, on the initial store.
Serial ==
    LET serial == Replay(engine.start, engine.log, 1)
    IN  \A s \in DOMAIN items : items[s].quantity = serial.items[s].quantity

\* C40: no quantity update is lost when sales and remote applies run on different
\* connections: the committed quantities are those of the succeeded operations
\* run one after another in the order of their commits, and every committed
\* operation computed its quantity from the store as the operations committed
\* before it left it; a sale whose read has become stale is not among them (it
\* failed with no effect), and a sale that is writing has read the current store.
C40_NoLostUpdate ==
    /\ Serial
    /\ \A i \in 1..Len(engine.log) : engine.log[i].read = i - 1
    /\ \A c \in SaleConns :
         engine.conn[c].pc = "write" => engine.conn[c].version = engine.version

\* C40 witness: a sale read the quantity of S1, a remote apply changed it before
\* the sale's first write, the sale failed, and a sale on the other connection
\* and the remote apply have both committed, the quantity differing from the
\* initial one.
C40_Witness ==
    /\ \E c \in SaleConns :
         /\ engine.conn[c].pc = "failed"
         /\ engine.conn[c].version # engine.version
         /\ engine.conn[c].snapshot.items["S1"].quantity # items["S1"].quantity
    /\ \E i, j \in 1..Len(engine.log) :
         engine.log[i].op = "process_sale" /\ engine.log[j].op = "apply_remote"
    /\ items["S1"].quantity # engine.start.items["S1"].quantity

(***************************************************************************)
(* The item and stock card commands beside the cache                       *)
(***************************************************************************)
\* delete_stock_card_safe without the count of linked inventory items.
delete_stock_card_unchecked(cards, rows, id) ==
    IF id \in DOMAIN cards
    THEN [result |-> "ok", cards |-> [c \in DOMAIN cards \ {id} |-> cards[c]]]
    ELSE [result |-> "NotFound", cards |-> cards]

\* delete_stock_card_safe on the cards and the inventory rows: its result and the
\* cards it leaves.
delete_stock_card_safe(cards, rows, id) ==
    LET count == IF id \in DOMAIN cards /\ cards[id] \in DOMAIN rows THEN 1 ELSE 0
    IN  IF count > 0 THEN [result |-> "Validation", cards |-> cards]
        ELSE IF id \in DOMAIN cards
             THEN [result |-> "ok", cards |-> [c \in DOMAIN cards \ {id} |-> cards[c]]]
             ELSE [result |-> "NotFound", cards |-> cards]

CardIds == ProductIds \cup {"p9"}     \* ids a delete_stock_card call may name

\* The delete_stock_card command.
DeleteStockCard(id) ==
    /\ LET out == delete_stock_card_safe(stock_cards, items, id)
       IN  /\ stock_cards' = out.cards
           /\ last' = [NoOp EXCEPT !.op = "delete_stock_card",
                                   !.request = [key |-> id, returned |-> None,
                                                cards |-> stock_cards],
                                   !.result = out.result, !.pre = Db]
    /\ UNCHANGED <<items, lots, accounts, transactions>>
    /\ UNCHANGED <<syncVars, workerVars, relayVars, isolationVars, cacheVars, received, recent, engine>>

\* The delete_item command: DELETE FROM inventory_items WHERE sku = ?1.
DeleteItemCommand(sku) ==
    /\ \E foreign_keys \in BOOLEAN : Commit(DeleteItem(Db, sku, foreign_keys))
    /\ last' = [NoOp EXCEPT !.op = "delete_item",
                            !.request = [key |-> sku, returned |-> None],
                            !.result = "ok", !.pre = Db]
    /\ UNCHANGED cache
    /\ UNCHANGED instant
    /\ CacheFrame

CommandNext ==
    \/ \E sku \in Skus : CacheGetItem(sku) \/ CacheSetItem(sku) \/ DeleteItemCommand(sku)
    \/ \E slot \in Slots : CacheGetAggregate(slot) \/ CacheSetAggregate(slot)
    \/ \E sku \in Skus, quantity \in {-1, 0} : UpdateQuantity(sku, quantity)
    \/ \E id \in CardIds : DeleteStockCard(id)

SpecCommand == CacheInit /\ [][CommandNext]_vars

\* The commands that mutate an item.
ItemCommands == {"update_quantity", "delete_item"}

\* C23: a command that mutates an item leaves the three aggregate slots empty and
\* no entry of the item in the LRU map, and a cached read returns the value the
\* store gives at the time of the read.
C23_CommandsInvalidate ==
    [][/\ \A sku \in Skus :
            (last'.op \in ItemCommands /\ last'.request.key = sku /\ items' # items)
              => /\ \A slot \in Slots : cache'[slot] = None
                 /\ ~InLru(cache', sku)
       /\ \A slot \in Slots :
            (IsCall("get_aggregate", slot) /\ last'.request.returned.some)
              => last'.request.returned.value = StockTotal(items, DOMAIN items)
       /\ \A sku \in Skus :
            (IsCall("get_item", sku) /\ last'.request.returned.some)
              => sku \in DOMAIN items
                 /\ last'.request.returned.value = items[sku].quantity]_vars

\* C24: delete_stock_card_safe on a card whose barcode is the sku of an inventory
\* item returns a validation error and deletes nothing; on a card with no such
\* item it deletes that card and nothing else and succeeds; on an id no card
\* carries it returns not-found and deletes nothing.
C24_SafeDelete ==
    last.op = "delete_stock_card" =>
      LET id == last.request.key
          cards == last.request.cards
      IN  /\ Db = last.pre
          /\ IF id \in DOMAIN cards /\ cards[id] \in DOMAIN last.pre.items
             THEN last.result = "Validation" /\ stock_cards = cards
             ELSE IF id \in DOMAIN cards
                  THEN /\ last.result = "ok"
                       /\ DOMAIN stock_cards = DOMAIN cards \ {id}
                       /\ \A c \in DOMAIN stock_cards : stock_cards[c] = cards[c]
                  ELSE last.result = "NotFound" /\ stock_cards = cards

\* C24 witness: the card of S1, whose deletion is refused while S1 is in the
\* inventory, was deleted after S1 had been deleted from the inventory; the card
\* of S2 and the item S2 are still there.
C24_Witness ==
    /\ last.op = "delete_stock_card"
    /\ last.request.key = "p1"
    /\ last.result = "ok"
    /\ "S1" \notin DOMAIN items
    /\ "S2" \in DOMAIN items
    /\ DOMAIN stock_cards = {"p2"}

====
